---- MODULE Spec2Model ----
(***************************************************************************)
(* The turn-taking machine dmMachine of src/src/main.ts (XState v5: setup, *)
(* fromPromise) and its audio variant, the first machine of                *)
(* src/src/main_manual_audio.ts, together with the promises the machine    *)
(* invokes: the Furhat calls, the language-model call, the key waiter and  *)
(* the listen/keypress race.  The second program of that file, a machine   *)
(* that listens and then waits for a key, is specified by SeqSpec.         *)
(*                                                                         *)
(* A JavaScript string is a tuple of one-character strings, so that        *)
(* toLowerCase, includes and join are computed character by character.     *)
(* One action is one transition of the statechart (an invoke's onDone or   *)
(* onError, or one branch of an always list) with the entry actions and    *)
(* the invoke of the state it enters.  XState runs the always transitions  *)
(* of a macrostep to completion before it takes the next event, so the     *)
(* actions of the environment are enabled in settled states only.          *)
(***************************************************************************)
EXTENDS Integers, Sequences, FiniteSets, TLC

VARIABLES
  variant,              \* "text": main.ts; "audio", "sequential": main_manual_audio.ts
  state,                \* the state value of the machine; "Exited", "Crashed": no process
  lastResult,           \* context.lastResult
  messages,             \* context.messages
  isFirstMessage,       \* context.isFirstMessage
  pendingManipulation,  \* context.pendingManipulation
  keyPressed,           \* context.keyPressed
  userSpeechBuffer,     \* context.userSpeechBuffer
  child,                \* the actor the current state has invoked, with its input
  pendingListens,       \* fhListen requests in flight (the pending race's and lost ones)
  keyHandlers,          \* 'keypress' handlers registered on process.stdin
  stdinFlowing,         \* process.stdin is being read: a 'keypress' listener was added
  stdinBuffer,          \* keys typed that process.stdin has not read yet
  heard,                \* history: the raw utterances behind userSpeechBuffer
  atKey,                \* history: messages, buffer, heard when the last key arrived
  effects,              \* history: actor calls and console output since the last key
  fetchFailed,          \* history: the fetch of the last language-model call threw
  nKeys,                \* history: keys that won a race
  nSpeech               \* history: utterances that won a race

context == <<lastResult, messages, isFirstMessage, pendingManipulation, keyPressed,
             userSpeechBuffer>>
history == <<heard, atKey, effects, fetchFailed, nKeys, nSpeech>>
vars == <<variant, state, context, child, pendingListens, keyHandlers, stdinFlowing,
          stdinBuffer, history>>

-----------------------------------------------------------------------------
(* Bounds of the model                                                     *)

\* most keys that win a race in one session, the keys held unread counted with them
MaxKeys == 1
\* most utterances that win a race in one session
MaxSpeech == 2

-----------------------------------------------------------------------------
(* Values                                                                  *)

\* null: no string equals it, the elements of a string being single characters
Null == <<"null">>
\* undefined, what a lookup of a missing key gives
Undefined == <<"undefined">>
\* the empty string
Empty == <<>>

\* content of the system Turn (main.ts:219), cut to its first words
SystemPrompt ==
  <<"Y","o","u"," ","a","r","e"," ","a"," ","v","i","r","t","u","a","l"," ","p","e","r","s",
    "o","n">>

\* content of the intro Turn of main.ts (main.ts:223), cut to its first words
IntroText ==
  <<"H","e","l","l","o","!"," ","W","e"," ","h","a","v","e"," ","a"," ","m","o","r","a","l",
    " ","d","i","l","e","m","m","a">>

\* content of the intro Turn of the audio variant (main_manual_audio.ts:285)
IntroAudio ==
  <<"i","n","t","r","o"," ","i","n","t","r","o"," ","i","n","t","r","o">>

\* the apology of ProcessingResponse.onError (main.ts:506)
ApologyText ==
  <<"I"," ","c","o","u","l","d","n","'","t"," ","p","r","o","c","e","s","s"," ","t","h","a",
    "t","."," ","P","l","e","a","s","e"," ","s","a","y"," ","i","t"," ","a","g","a","i","n",
    ".">>

\* the string fetchChatCompletion returns from its catch block (main.ts:119)
FetchErrorText ==
  <<"E","r","r","o","r"," ","w","h","i","l","e"," ","c","o","n","n","e","c","t","i","n","g",
    " ","t","o"," ","t","h","e"," ","l","a","n","g","u","a","g","e"," ","m","o","d","e","l",
    "."," ","P","r","o","b","a","b","l","y"," ","s","s","h"," ","t","u","n","n","e","l"," ",
    "i","s"," ","n","o","t"," ","a","c","t","i","v","e",".">>

\* the closing line of End (main.ts:541, 551)
FarewellText ==
  <<"T","h","a","n","k"," ","y","o","u"," ","f","o","r"," ","y","o","u","r"," ","p","a","r",
    "t","i","c","i","p","a","t","i","o","n",".">>

\* what sanitizeUtterance returns for a no-match utterance (main.ts:153)
Placeholder ==
  <<".",".",".">>

\* the marker sanitizeUtterance looks for (main.ts:152)
Marker ==
  <<"n","o","m","a","t","c","h">>

\* the separator of userSpeechBuffer.join (main.ts:353)
Separator ==
  <<" ">>

\* an utterance fhListen can return
UttDoctor ==
  <<"I"," ","t","h","i","n","k"," ","t","h","e"," ","d","o","c","t","o","r">>

\* the recogniser's no-match utterance
UttNoMatchUpper ==
  <<"N","O","M","A","T","C","H">>

\* an utterance holding the marker in mixed case
UttNoMatchMixed ==
  <<"N","o","M","a","t","c","h"," ","f","o","o">>

\* a reply of the language model (data.message.content, main.ts:115)
ReplyText ==
  <<"W","h","y"," ","t","h","e"," ","d","o","c","t","o","r","?">>

\* the key.name readline gives the Return key
KeyReturn ==
  <<"r","e","t","u","r","n">>

\* textForHistory up to the key (main_manual_audio.ts:516)
AudioMarkOpen ==
  <<"[","A","u","d","i","o"," ","m","a","n","i","p","u","l","a","t","i","o","n",":"," ">>

\* textForHistory after the key (main_manual_audio.ts:516)
AudioMarkClose ==
  <<"]">>

\* the table manipulations of AddManipulation (main.ts:422-438); a key it does not hold
\* reads as undefined
manipulations(key) ==
  CASE key = <<"1">> ->
      <<"H","m","m",","," ","t","h","e"," ","D","o","c","t","o","r","?">>
    [] key = <<"2">> ->
      <<"H","m","m",","," ","t","h","e"," ","p","r","e","g","n","a","n","t"," ","l","a","d",
        "y","?">>
    [] key = <<"3">> ->
      <<"H","m","m",","," ","t","h","e"," ","c","h","i","l","d","?">>
    [] key = <<"4">> ->
      <<"H","m","m",","," ","t","h","e"," ","p","i","l","o","t","?">>
    [] key = <<"q">> ->
      <<".",".",".",".",".",".",".","."," ","T","h","e"," ","D","o","c","t","o","r","?">>
    [] key = <<"w">> ->
      <<".",".",".",".",".",".",".","."," ","T","h","e"," ","p","r","e","g","n","a","n","t",
        " ","l","a","d","y","?">>
    [] key = <<"e">> ->
      <<".",".",".",".",".",".",".","."," ","T","h","e"," ","c","h","i","l","d","?">>
    [] key = <<"r">> ->
      <<".",".",".",".",".",".",".","."," ","T","h","e"," ","p","i","l","o","t","?">>
    [] key = <<"a">> ->
      <<"H","a","h","a","h","a",","," ","t","h","e"," ","D","o","c","t","o","r","?">>
    [] key = <<"s">> ->
      <<"H","a","h","a","h","a",","," ","t","h","e"," ","p","r","e","g","n","a","n","t"," ",
        "l","a","d","y","?">>
    [] key = <<"d">> ->
      <<"H","a","h","a","h","a",","," ","t","h","e"," ","c","h","i","l","d","?">>
    [] key = <<"f">> ->
      <<"H","a","h","a","h","a",","," ","t","h","e"," ","p","i","l","o","t","?">>
    [] OTHER -> Undefined

\* the table audioFiles of AddManipulation in the audio variant (main_manual_audio.ts:497-513)
audioFiles(key) ==
  CASE key = <<"1">> ->
      <<"h","t","t","p",":","/","/","l","o","c","a","l","h","o","s","t",":","8","0","0","0",
        "/","h","m","m","_","d","o","c","t","o","r",".","w","a","v">>
    [] key = <<"2">> ->
      <<"h","t","t","p",":","/","/","l","o","c","a","l","h","o","s","t",":","8","0","0","0",
        "/","h","m","m","_","p","r","e","g","n","a","n","t",".","w","a","v">>
    [] key = <<"3">> ->
      <<"h","t","t","p",":","/","/","l","o","c","a","l","h","o","s","t",":","8","0","0","0",
        "/","h","m","m","_","c","h","i","l","d",".","w","a","v">>
    [] key = <<"4">> ->
      <<"h","t","t","p",":","/","/","l","o","c","a","l","h","o","s","t",":","8","0","0","0",
        "/","h","m","m","_","p","i","l","o","t",".","w","a","v">>
    [] key = <<"q">> ->
      <<"h","t","t","p",":","/","/","l","o","c","a","l","h","o","s","t",":","8","0","0","0",
        "/","p","a","u","s","e","_","d","o","c","t","o","r",".","w","a","v">>
    [] key = <<"w">> ->
      <<"h","t","t","p",":","/","/","l","o","c","a","l","h","o","s","t",":","8","0","0","0",
        "/","p","a","u","s","e","_","p","r","e","g","n","a","n","t",".","w","a","v">>
    [] key = <<"e">> ->
      <<"h","t","t","p",":","/","/","l","o","c","a","l","h","o","s","t",":","8","0","0","0",
        "/","p","a","u","s","e","_","c","h","i","l","d",".","w","a","v">>
    [] key = <<"r">> ->
      <<"h","t","t","p",":","/","/","l","o","c","a","l","h","o","s","t",":","8","0","0","0",
        "/","p","a","u","s","e","_","p","i","l","o","t",".","w","a","v">>
    [] key = <<"a">> ->
      <<"h","t","t","p",":","/","/","l","o","c","a","l","h","o","s","t",":","8","0","0","0",
        "/","l","a","u","g","h","_","d","o","c","t","o","r",".","w","a","v">>
    [] key = <<"s">> ->
      <<"h","t","t","p",":","/","/","l","o","c","a","l","h","o","s","t",":","8","0","0","0",
        "/","l","a","u","g","h","_","p","r","e","g","n","a","n","t",".","w","a","v">>
    [] key = <<"d">> ->
      <<"h","t","t","p",":","/","/","l","o","c","a","l","h","o","s","t",":","8","0","0","0",
        "/","l","a","u","g","h","_","c","h","i","l","d",".","w","a","v">>
    [] key = <<"f">> ->
      <<"h","t","t","p",":","/","/","l","o","c","a","l","h","o","s","t",":","8","0","0","0",
        "/","l","a","u","g","h","_","p","i","l","o","t",".","w","a","v">>
    [] OTHER -> Undefined

-----------------------------------------------------------------------------
(* Inputs                                                                  *)

\* utterances fhListen resolves with
Utterances == {UttDoctor, UttNoMatchUpper, UttNoMatchMixed}

\* replies the language model gives
Replies == {ReplyText}

\* the 12 keys of isManipulationKey's list (main.ts:201)
ManipulationKeys ==
  {<<"1">>, <<"2">>, <<"3">>, <<"4">>, <<"q">>, <<"w">>, <<"e">>, <<"r">>,
   <<"a">>, <<"s">>, <<"d">>, <<"f">>}

\* key.name values of readline: the control keys, the stimulus keys, the confirmation keys
\* and a key with a longer name
AllKeyNames == {<<"0">>, <<"l">>, <<"m">>, <<"y">>, <<"n">>, KeyReturn} \cup ManipulationKeys

\* the stimulus keys the operator presses in the behaviours explored: one of each family
\* (Hmm, pause, Hahaha)
PressedManipulationKeys == {<<"1">>, <<"w">>, <<"d">>}

\* the names of the keys pressed in the behaviours explored
KeyNames == (AllKeyNames \ ManipulationKeys) \cup PressedManipulationKeys

\* a key as readline reports it to a 'keypress' handler: key.name, which is undefined
\* for a character that has no name ("!", "?"), and key.ctrl
Key(name, ctrl) == [name |-> name, ctrl |-> ctrl]
CtrlC == Key(<<"c">>, TRUE)
Nameless == Key(Undefined, FALSE)

\* the keys pressed in the behaviours explored
Keys == {Key(name, FALSE) : name \in KeyNames} \cup {CtrlC, Nameless}

-----------------------------------------------------------------------------
(* String functions                                                        *)

\* A character outside ASCII is written by its code point ("U+00C0" is one character).
\* The letters with a lower-case form other than themselves, of Basic Latin, Latin-1
\* Supplement, Latin Extended-A and -B, Cyrillic (to U+042F), the Kelvin and Angstrom signs
\* and the fullwidth forms
UpperLetters ==
  <<"A", "B", "C", "D", "E", "F", "G", "H", "I", "J", "K", "L", "M", "N", "O", "P", "Q", "R",
    "S", "T", "U", "V", "W", "X", "Y", "Z", "U+00C0", "U+00C1", "U+00C2", "U+00C3", "U+00C4",
    "U+00C5", "U+00C6", "U+00C7", "U+00C8", "U+00C9", "U+00CA", "U+00CB", "U+00CC", "U+00CD",
    "U+00CE", "U+00CF", "U+00D0", "U+00D1", "U+00D2", "U+00D3", "U+00D4", "U+00D5", "U+00D6",
    "U+00D8", "U+00D9", "U+00DA", "U+00DB", "U+00DC", "U+00DD", "U+00DE", "U+0100", "U+0102",
    "U+0104", "U+0106", "U+0108", "U+010A", "U+010C", "U+010E", "U+0110", "U+0112", "U+0114",
    "U+0116", "U+0118", "U+011A", "U+011C", "U+011E", "U+0120", "U+0122", "U+0124", "U+0126",
    "U+0128", "U+012A", "U+012C", "U+012E", "U+0132", "U+0134", "U+0136", "U+0139", "U+013B",
    "U+013D", "U+013F", "U+0141", "U+0143", "U+0145", "U+0147", "U+014A", "U+014C", "U+014E",
    "U+0150", "U+0152", "U+0154", "U+0156", "U+0158", "U+015A", "U+015C", "U+015E", "U+0160",
    "U+0162", "U+0164", "U+0166", "U+0168", "U+016A", "U+016C", "U+016E", "U+0170", "U+0172",
    "U+0174", "U+0176", "U+0178", "U+0179", "U+017B", "U+017D", "U+0181", "U+0182", "U+0184",
    "U+0186", "U+0187", "U+0189", "U+018A", "U+018B", "U+018E", "U+018F", "U+0190", "U+0191",
    "U+0193", "U+0194", "U+0196", "U+0197", "U+0198", "U+019C", "U+019D", "U+019F", "U+01A0",
    "U+01A2", "U+01A4", "U+01A6", "U+01A7", "U+01A9", "U+01AC", "U+01AE", "U+01AF", "U+01B1",
    "U+01B2", "U+01B3", "U+01B5", "U+01B7", "U+01B8", "U+01BC", "U+01C4", "U+01C5", "U+01C7",
    "U+01C8", "U+01CA", "U+01CB", "U+01CD", "U+01CF", "U+01D1", "U+01D3", "U+01D5", "U+01D7",
    "U+01D9", "U+01DB", "U+01DE", "U+01E0", "U+01E2", "U+01E4", "U+01E6", "U+01E8", "U+01EA",
    "U+01EC", "U+01EE", "U+01F1", "U+01F2", "U+01F4", "U+01F6", "U+01F7", "U+01F8", "U+01FA",
    "U+01FC", "U+01FE", "U+0200", "U+0202", "U+0204", "U+0206", "U+0208", "U+020A", "U+020C",
    "U+020E", "U+0210", "U+0212", "U+0214", "U+0216", "U+0218", "U+021A", "U+021C", "U+021E",
    "U+0220", "U+0222", "U+0224", "U+0226", "U+0228", "U+022A", "U+022C", "U+022E", "U+0230",
    "U+0232", "U+023A", "U+023B", "U+023D", "U+023E", "U+0241", "U+0243", "U+0244", "U+0245",
    "U+0246", "U+0248", "U+024A", "U+024C", "U+024E", "U+0400", "U+0401", "U+0402", "U+0403",
    "U+0404", "U+0405", "U+0406", "U+0407", "U+0408", "U+0409", "U+040A", "U+040B", "U+040C",
    "U+040D", "U+040E", "U+040F", "U+0410", "U+0411", "U+0412", "U+0413", "U+0414", "U+0415",
    "U+0416", "U+0417", "U+0418", "U+0419", "U+041A", "U+041B", "U+041C", "U+041D", "U+041E",
    "U+041F", "U+0420", "U+0421", "U+0422", "U+0423", "U+0424", "U+0425", "U+0426", "U+0427",
    "U+0428", "U+0429", "U+042A", "U+042B", "U+042C", "U+042D", "U+042E", "U+042F", "U+212A",
    "U+212B", "U+FF21", "U+FF22", "U+FF23", "U+FF24", "U+FF25", "U+FF26", "U+FF27", "U+FF28",
    "U+FF29", "U+FF2A", "U+FF2B", "U+FF2C", "U+FF2D", "U+FF2E", "U+FF2F", "U+FF30", "U+FF31",
    "U+FF32", "U+FF33", "U+FF34", "U+FF35", "U+FF36", "U+FF37", "U+FF38", "U+FF39", "U+FF3A">>

LowerLetters ==
  <<"a", "b", "c", "d", "e", "f", "g", "h", "i", "j", "k", "l", "m", "n", "o", "p", "q", "r",
    "s", "t", "u", "v", "w", "x", "y", "z", "U+00E0", "U+00E1", "U+00E2", "U+00E3", "U+00E4",
    "U+00E5", "U+00E6", "U+00E7", "U+00E8", "U+00E9", "U+00EA", "U+00EB", "U+00EC", "U+00ED",
    "U+00EE", "U+00EF", "U+00F0", "U+00F1", "U+00F2", "U+00F3", "U+00F4", "U+00F5", "U+00F6",
    "U+00F8", "U+00F9", "U+00FA", "U+00FB", "U+00FC", "U+00FD", "U+00FE", "U+0101", "U+0103",
    "U+0105", "U+0107", "U+0109", "U+010B", "U+010D", "U+010F", "U+0111", "U+0113", "U+0115",
    "U+0117", "U+0119", "U+011B", "U+011D", "U+011F", "U+0121", "U+0123", "U+0125", "U+0127",
    "U+0129", "U+012B", "U+012D", "U+012F", "U+0133", "U+0135", "U+0137", "U+013A", "U+013C",
    "U+013E", "U+0140", "U+0142", "U+0144", "U+0146", "U+0148", "U+014B", "U+014D", "U+014F",
    "U+0151", "U+0153", "U+0155", "U+0157", "U+0159", "U+015B", "U+015D", "U+015F", "U+0161",
    "U+0163", "U+0165", "U+0167", "U+0169", "U+016B", "U+016D", "U+016F", "U+0171", "U+0173",
    "U+0175", "U+0177", "U+00FF", "U+017A", "U+017C", "U+017E", "U+0253", "U+0183", "U+0185",
    "U+0254", "U+0188", "U+0256", "U+0257", "U+018C", "U+01DD", "U+0259", "U+025B", "U+0192",
    "U+0260", "U+0263", "U+0269", "U+0268", "U+0199", "U+026F", "U+0272", "U+0275", "U+01A1",
    "U+01A3", "U+01A5", "U+0280", "U+01A8", "U+0283", "U+01AD", "U+0288", "U+01B0", "U+028A",
    "U+028B", "U+01B4", "U+01B6", "U+0292", "U+01B9", "U+01BD", "U+01C6", "U+01C6", "U+01C9",
    "U+01C9", "U+01CC", "U+01CC", "U+01CE", "U+01D0", "U+01D2", "U+01D4", "U+01D6", "U+01D8",
    "U+01DA", "U+01DC", "U+01DF", "U+01E1", "U+01E3", "U+01E5", "U+01E7", "U+01E9", "U+01EB",
    "U+01ED", "U+01EF", "U+01F3", "U+01F3", "U+01F5", "U+0195", "U+01BF", "U+01F9", "U+01FB",
    "U+01FD", "U+01FF", "U+0201", "U+0203", "U+0205", "U+0207", "U+0209", "U+020B", "U+020D",
    "U+020F", "U+0211", "U+0213", "U+0215", "U+0217", "U+0219", "U+021B", "U+021D", "U+021F",
    "U+019E", "U+0223", "U+0225", "U+0227", "U+0229", "U+022B", "U+022D", "U+022F", "U+0231",
    "U+0233", "U+2C65", "U+023C", "U+019A", "U+2C66", "U+0242", "U+0180", "U+0289", "U+028C",
    "U+0247", "U+0249", "U+024B", "U+024D", "U+024F", "U+0450", "U+0451", "U+0452", "U+0453",
    "U+0454", "U+0455", "U+0456", "U+0457", "U+0458", "U+0459", "U+045A", "U+045B", "U+045C",
    "U+045D", "U+045E", "U+045F", "U+0430", "U+0431", "U+0432", "U+0433", "U+0434", "U+0435",
    "U+0436", "U+0437", "U+0438", "U+0439", "U+043A", "U+043B", "U+043C", "U+043D", "U+043E",
    "U+043F", "U+0440", "U+0441", "U+0442", "U+0443", "U+0444", "U+0445", "U+0446", "U+0447",
    "U+0448", "U+0449", "U+044A", "U+044B", "U+044C", "U+044D", "U+044E", "U+044F", "k",
    "U+00E5", "U+FF41", "U+FF42", "U+FF43", "U+FF44", "U+FF45", "U+FF46", "U+FF47", "U+FF48",
    "U+FF49", "U+FF4A", "U+FF4B", "U+FF4C", "U+FF4D", "U+FF4E", "U+FF4F", "U+FF50", "U+FF51",
    "U+FF52", "U+FF53", "U+FF54", "U+FF55", "U+FF56", "U+FF57", "U+FF58", "U+FF59", "U+FF5A">>

\* the characters whose lower-case form is not one character (Unicode SpecialCasing)
SpecialCasing == [c \in {"U+0130"} |-> <<"i", "U+0307">>]

\* the lower-case form of each letter of UpperLetters
LowerCase ==
  [c \in {UpperLetters[i] : i \in 1..Len(UpperLetters)} |->
     LowerLetters[CHOOSE i \in 1..Len(UpperLetters) : UpperLetters[i] = c]]

\* the characters that are their own lower-case form, among those the strings of the
\* model are written with: the printable ASCII characters but A-Z and the grave accent,
\* the lower-case forms of LowerLetters and the combining dot of SpecialCasing
OwnLowerCase ==
  {" ", "!", "\"", "#", "$", "%", "&", "'", "(", ")", "*", "+", ",", "-", ".", "/", "0",
   "1", "2", "3", "4", "5", "6", "7", "8", "9", ":", ";", "<", "=", ">", "?", "@", "[",
   "\\", "]", "^", "_", "a", "b", "c", "d", "e", "f", "g", "h", "i", "j", "k", "l",
   "m", "n", "o", "p", "q", "r", "s", "t", "u", "v", "w", "x", "y", "z", "{", "|", "}", "~"}
    \cup {LowerLetters[i] : i \in 1..Len(LowerLetters)} \cup {"U+0307"}

\* String.prototype.toLowerCase on one character: a string of one or two characters.  It
\* is given on the characters above only: on any other character (Greek, whose capital
\* sigma is lowered by its place in the word, and the scripts not listed) it has no value
lowerChar(c) ==
  CASE c \in DOMAIN SpecialCasing -> SpecialCasing[c]
    [] c \in DOMAIN LowerCase -> <<LowerCase[c]>>
    [] c \in OwnLowerCase -> <<c>>

\* String.prototype.toLowerCase
RECURSIVE toLowerCase(_)
toLowerCase(s) ==
  IF Len(s) = 0 THEN Empty ELSE lowerChar(Head(s)) \o toLowerCase(Tail(s))

\* String.prototype.includes
includes(s, sub) ==
  \E i \in 0..(Len(s) - Len(sub)) : SubSeq(s, i + 1, i + Len(sub)) = sub

\* Array.prototype.join
RECURSIVE join(_, _)
join(arr, sep) ==
  IF Len(arr) = 0 THEN Empty
  ELSE IF Len(arr) = 1 THEN arr[1]
  ELSE join(SubSeq(arr, 1, Len(arr) - 1), sep) \o sep \o arr[Len(arr)]

\* x || '' for a string, null or undefined x
orEmpty(x) == IF x = Null \/ x = Undefined \/ x = Empty THEN Empty ELSE x

\* sanitizeUtterance looking for the marker in upper case only
sanitizeUtterance_caseSensitive(utterance) ==
  IF includes(utterance, <<"N","O","M","A","T","C","H">>) THEN Placeholder ELSE utterance

\* sanitizeUtterance (main.ts:150-156)
sanitizeUtterance(utterance) ==
  IF includes(toLowerCase(utterance), Marker) THEN Placeholder ELSE utterance

-----------------------------------------------------------------------------
(* Guards of the machine (main.ts:191-206), on the value of context.keyPressed *)

isListMessagesKey(key) == key = <<"m">>
\* isDiscussKey that takes '0' as well
isDiscussKey_withZero(key) == key \in {<<"l">>, <<"0">>}
isDiscussKey(key) == key = <<"l">>
isQuitKey(key) == key = <<"0">>
\* isManipulationKey with 'm' in its list
isManipulationKey_withM(key) == key # Null /\ key \in ManipulationKeys \cup {<<"m">>}
isManipulationKey(key) == key # Null /\ key \in ManipulationKeys
isYesKey(key) == key = <<"y">>
isNoKey(key) == key = <<"n">>

Message(role, content) == [role |-> role, content |-> content]

-----------------------------------------------------------------------------
(* Actors and effects                                                      *)

NoActor == [src |-> "none"]
fhSetVoice == [src |-> "fhSetVoice"]
fhAttend == [src |-> "fhAttend"]
fhSpeak(text, first) == [src |-> "fhSpeak", text |-> text, isFirstMessage |-> first]
fhSpeakAudio(url, first) == [src |-> "fhSpeakAudio", audioUrl |-> url, isFirstMessage |-> first]
chatCompletion(msgs) == [src |-> "chatCompletion", messages |-> msgs]
waitForKey == [src |-> "waitForKey"]
listenOrKeypress == [src |-> "listenOrKeypress"]

\* console.log of the message history (ListMessages, ListMessagesBeforeFinal)
PrintedLog(msgs) == [src |-> "console", out |-> "history", messages |-> msgs]
\* console.log of the unknown-key notice (ProcessKeypress, last branch)
UnknownKeyNotice == [src |-> "console", out |-> "unknown key"]

Last(s) == s[Len(s)]
Snapshot == [messages |-> messages, userSpeechBuffer |-> userSpeechBuffer, heard |-> heard]

\* the state has always transitions, which run before any further event is taken
Eventless ==
  \/ state \in {"CheckIfKeypressOrContinueListening", "ProcessAccumulatedSpeech",
                "ProcessKeypress", "ListMessages", "AddManipulation",
                "ListMessagesBeforeFinal"}
  \/ state = "ProcessYN" /\ (isYesKey(keyPressed) \/ isNoKey(keyPressed))

\* the process has ended: by process.exit in the entry of Done (main.ts:611-617) or in a
\* key handler, or by the exception of a key handler
ProcessEnded == state \in {"Done", "Exited", "Crashed"}

\* the race of the current state is pending: its listen and its key waiter are out
RacePending == child = listenOrKeypress

\* fhListen requests and key handlers that belong to no pending actor
StaleListens == pendingListens - (IF RacePending THEN 1 ELSE 0)
StaleHandlers == keyHandlers - (IF RacePending \/ child = waitForKey THEN 1 ELSE 0)

-----------------------------------------------------------------------------
(* Initial state: the context of createMachine and the entry of            *)
(* SetupFurhat.SetVoice                                                    *)

Init ==
  /\ variant \in {"text", "audio"}
  /\ state = "SetVoice"
  /\ lastResult = Empty
  /\ isFirstMessage = TRUE
  /\ pendingManipulation = Null
  /\ keyPressed = Null
  /\ userSpeechBuffer = <<>>
  /\ messages = <<Message("system", SystemPrompt),
                  Message("assistant", IF variant = "text" THEN IntroText ELSE IntroAudio)>>
  /\ child = fhSetVoice
  /\ pendingListens = 0
  /\ keyHandlers = 0
  /\ stdinFlowing = FALSE
  /\ stdinBuffer = <<>>
  /\ heard = <<>>
  /\ atKey = [messages |-> messages, userSpeechBuffer |-> <<>>, heard |-> <<>>]
  /\ effects = <<fhSetVoice>>
  /\ fetchFailed = FALSE
  /\ nKeys = 0
  /\ nSpeech = 0

-----------------------------------------------------------------------------
(* Entering a state that invokes an actor                                  *)

\* EnterSpeak that takes the pause flag from the context in every state
EnterSpeak_fromContext(target, msgs, first) ==
  /\ state' = target
  /\ child' = fhSpeak(Last(msgs).content, isFirstMessage)
  /\ effects' = Append(effects, child')

\* entry of InitialSpeak, Speaking: fhSpeak on the content of the last message
EnterSpeak(target, msgs, first) ==
  /\ state' = target
  /\ child' = fhSpeak(Last(msgs).content, first)
  /\ effects' = Append(effects, child')

\* entry of ListeningOrWaitingForKey: listenOrKeypress starts fhListen and waitForKeypress
EnterListening(eff) ==
  /\ state' = "ListeningOrWaitingForKey"
  /\ child' = listenOrKeypress
  /\ pendingListens' = pendingListens + 1
  /\ keyHandlers' = keyHandlers + 1
  /\ stdinFlowing' = TRUE
  /\ effects' = Append(eff, listenOrKeypress)

-----------------------------------------------------------------------------
(* SetupFurhat and InitialSpeak                                            *)

SetVoice_onDone ==
  /\ state = "SetVoice"
  /\ state' = "AttendUser"
  /\ child' = fhAttend
  /\ effects' = Append(effects, fhAttend)
  /\ UNCHANGED <<variant, stdinFlowing, stdinBuffer, context, pendingListens, keyHandlers,
                 heard, atKey, fetchFailed, nKeys, nSpeech>>

SetVoice_onError ==
  /\ state = "SetVoice"
  /\ EnterSpeak("InitialSpeak", messages, isFirstMessage)
  /\ UNCHANGED <<variant, stdinFlowing, stdinBuffer, context, pendingListens, keyHandlers,
                 heard, atKey, fetchFailed, nKeys, nSpeech>>

AttendUser_onDone ==
  /\ state = "AttendUser"
  /\ EnterSpeak("InitialSpeak", messages, isFirstMessage)
  /\ UNCHANGED <<variant, stdinFlowing, stdinBuffer, context, pendingListens, keyHandlers,
                 heard, atKey, fetchFailed, nKeys, nSpeech>>

AttendUser_onError ==
  /\ state = "AttendUser"
  /\ EnterSpeak("InitialSpeak", messages, isFirstMessage)
  /\ UNCHANGED <<variant, stdinFlowing, stdinBuffer, context, pendingListens, keyHandlers,
                 heard, atKey, fetchFailed, nKeys, nSpeech>>

InitialSpeak_onDone ==
  /\ state = "InitialSpeak"
  /\ isFirstMessage' = FALSE
  /\ EnterListening(effects)
  /\ UNCHANGED <<variant, stdinBuffer, lastResult, messages, pendingManipulation, keyPressed,
                 userSpeechBuffer, heard, atKey, fetchFailed, nKeys, nSpeech>>

InitialSpeak_onError ==
  /\ state = "InitialSpeak"
  /\ EnterListening(effects)
  /\ UNCHANGED <<variant, stdinBuffer, context, heard, atKey, fetchFailed, nKeys, nSpeech>>

-----------------------------------------------------------------------------
(* The race: listenOrKeypress (main.ts:142-147) and the onDone and onError *)
(* of ListeningOrWaitingForKey (main.ts:287-321)                           *)

\* the exception of a property read on undefined
TypeError == <<"TypeError">>

\* key.name.toLowerCase() (main.ts:135): what the handler of waitForKeypress resolves
\* with, or the TypeError it throws on a key without a name
keyToken(name) == IF name = Undefined THEN TypeError ELSE toLowerCase(name)

\* what the handler does with a key once it has removed itself (main.ts:129-135): it ends
\* the process on Ctrl+C, and else resolves its promise, unless the key has no name
handlerOutcome(key) ==
  IF key.ctrl /\ key.name = <<"c">> THEN "exit"
  ELSE IF keyToken(key.name) = TypeError THEN "throw"
  ELSE "resolve"

\* raceAssign that keeps the newest fragment only
raceAssign_replacing(result) ==
  IF result.type = "speech"
  THEN [lastResult |-> sanitizeUtterance(result.data),
        userSpeechBuffer |-> <<sanitizeUtterance(result.data)>>,
        keyPressed |-> Null]
  ELSE [lastResult |-> lastResult,
        userSpeechBuffer |-> userSpeechBuffer,
        keyPressed |-> result.data]

\* the assign of ListeningOrWaitingForKey.onDone (main.ts:292-313): the fields it returns
raceAssign(result) ==
  IF result.type = "speech"
  THEN [lastResult |-> sanitizeUtterance(result.data),
        userSpeechBuffer |-> Append(userSpeechBuffer, sanitizeUtterance(result.data)),
        keyPressed |-> Null]
  ELSE [lastResult |-> lastResult,
        userSpeechBuffer |-> userSpeechBuffer,
        keyPressed |-> result.data]

\* Race_speech that leaves the key of an earlier race in keyPressed
Race_speech_keepingKey(utterance) ==
  /\ state = "ListeningOrWaitingForKey" /\ RacePending
  /\ nSpeech < MaxSpeech
  /\ nSpeech' = nSpeech + 1
  /\ LET a == raceAssign([type |-> "speech", data |-> utterance])
     IN /\ lastResult' = a.lastResult
        /\ userSpeechBuffer' = a.userSpeechBuffer
        /\ keyPressed' = keyPressed
  /\ state' = "CheckIfKeypressOrContinueListening"
  /\ child' = NoActor
  /\ pendingListens' = pendingListens - 1
  /\ heard' = Append(heard, utterance)
  /\ UNCHANGED <<variant, stdinFlowing, stdinBuffer, messages, isFirstMessage,
                 pendingManipulation, keyHandlers, atKey, effects, fetchFailed, nKeys>>

\* fhListen resolves before a key reaches the handler: the race is won by speech
Race_speech(utterance) ==
  /\ state = "ListeningOrWaitingForKey" /\ RacePending
  /\ nSpeech < MaxSpeech
  /\ nSpeech' = nSpeech + 1
  /\ LET a == raceAssign([type |-> "speech", data |-> utterance])
     IN /\ lastResult' = a.lastResult
        /\ userSpeechBuffer' = a.userSpeechBuffer
        /\ keyPressed' = a.keyPressed
  /\ state' = "CheckIfKeypressOrContinueListening"
  /\ child' = NoActor
  /\ pendingListens' = pendingListens - 1
  /\ heard' = Append(heard, utterance)
  /\ UNCHANGED <<variant, stdinFlowing, stdinBuffer, messages, isFirstMessage,
                 pendingManipulation, keyHandlers, atKey, effects, fetchFailed, nKeys>>

\* Race_keypress on which only the waiter of this race removes itself
Race_keypress_leavingStale(name) ==
  /\ state = "ListeningOrWaitingForKey" /\ RacePending
  /\ stdinBuffer = <<>>
  /\ nKeys < MaxKeys
  /\ nKeys' = nKeys + 1
  /\ LET a == raceAssign([type |-> "keypress", data |-> keyToken(name)])
     IN /\ lastResult' = a.lastResult
        /\ userSpeechBuffer' = a.userSpeechBuffer
        /\ keyPressed' = a.keyPressed
  /\ state' = "CheckIfKeypressOrContinueListening"
  /\ child' = NoActor
  /\ keyHandlers' = keyHandlers - 1
  /\ atKey' = Snapshot
  /\ effects' = <<>>
  /\ fetchFailed' = FALSE
  /\ UNCHANGED <<variant, stdinFlowing, stdinBuffer, messages, isFirstMessage,
                 pendingManipulation, pendingListens, heard, nSpeech>>

\* a key is pressed while the race is pending: every registered handler removes itself and
\* resolves, and the race is won by the waiter of this race
Race_keypress(name) ==
  /\ state = "ListeningOrWaitingForKey" /\ RacePending
  /\ stdinBuffer = <<>>
  /\ nKeys < MaxKeys
  /\ nKeys' = nKeys + 1
  /\ LET a == raceAssign([type |-> "keypress", data |-> keyToken(name)])
     IN /\ lastResult' = a.lastResult
        /\ userSpeechBuffer' = a.userSpeechBuffer
        /\ keyPressed' = a.keyPressed
  /\ state' = "CheckIfKeypressOrContinueListening"
  /\ child' = NoActor
  /\ keyHandlers' = 0
  /\ atKey' = Snapshot
  /\ effects' = <<>>
  /\ fetchFailed' = FALSE
  /\ UNCHANGED <<variant, stdinFlowing, stdinBuffer, messages, isFirstMessage,
                 pendingManipulation, pendingListens, heard, nSpeech>>

\* a key is pressed before the first key waiter: process.stdin has no 'keypress' listener
\* yet and is not being read (main.ts:23-26 set it up without resume), so the key stays in
\* it; so does a key pressed while it holds keys not read yet
KeyTyped_unread(key) ==
  /\ ~stdinFlowing \/ stdinBuffer # <<>>
  /\ ~Eventless /\ ~ProcessEnded
  /\ nKeys + Len(stdinBuffer) < MaxKeys
  /\ stdinBuffer' = Append(stdinBuffer, key)
  /\ UNCHANGED <<variant, stdinFlowing, state, context, child, pendingListens, keyHandlers,
                 history>>

\* the first waitForKeypress registers its handler, which starts the reading of
\* process.stdin (main.ts:137): the keys it holds are emitted together, the first to the
\* handlers registered by then, which settles the pending race on it, the others to no
\* handler
Race_bufferedKeypress ==
  /\ state = "ListeningOrWaitingForKey" /\ RacePending
  /\ stdinBuffer # <<>>
  /\ handlerOutcome(Head(stdinBuffer)) = "resolve"
  /\ stdinBuffer' = <<>>
  /\ nKeys' = nKeys + 1
  /\ LET a == raceAssign([type |-> "keypress", data |-> keyToken(Head(stdinBuffer).name)])
     IN /\ lastResult' = a.lastResult
        /\ userSpeechBuffer' = a.userSpeechBuffer
        /\ keyPressed' = a.keyPressed
  /\ state' = "CheckIfKeypressOrContinueListening"
  /\ child' = NoActor
  /\ keyHandlers' = 0
  /\ atKey' = Snapshot
  /\ effects' = <<>>
  /\ fetchFailed' = FALSE
  /\ UNCHANGED <<variant, stdinFlowing, messages, isFirstMessage, pendingManipulation,
                 pendingListens, heard, nSpeech>>

\* Race_error that ends the session
Race_error_fatal ==
  /\ state = "ListeningOrWaitingForKey" /\ RacePending
  /\ state' = "Done"
  /\ child' = NoActor
  /\ pendingListens' = pendingListens - 1
  /\ UNCHANGED <<variant, stdinFlowing, stdinBuffer, context, keyHandlers, history>>

\* fhListen rejects before a key reaches the handler: the race rejects.  The onError transition
\* targets its own state without reenter, so the state is not exited and entered again
\* and its invoke is not started again.
Race_error ==
  /\ state = "ListeningOrWaitingForKey" /\ RacePending
  /\ child' = NoActor
  /\ pendingListens' = pendingListens - 1
  /\ UNCHANGED <<variant, stdinFlowing, stdinBuffer, state, context, keyHandlers, history>>

\* StaleListen_settles with the late utterance buffered all the same
StaleListen_settles_buffered ==
  /\ ~Eventless /\ ~ProcessEnded
  /\ StaleListens > 0
  /\ pendingListens' = pendingListens - 1
  /\ \E u \in Utterances :
       userSpeechBuffer' = Append(userSpeechBuffer, sanitizeUtterance(u))
  /\ UNCHANGED <<variant, stdinFlowing, stdinBuffer, state, lastResult, messages,
                 isFirstMessage, pendingManipulation, keyPressed, child, keyHandlers, history>>

\* the fhListen of a race that was left settles (resolves or rejects): nothing awaits it
StaleListen_settles ==
  /\ ~Eventless /\ ~ProcessEnded
  /\ StaleListens > 0
  /\ pendingListens' = pendingListens - 1
  /\ UNCHANGED <<variant, stdinFlowing, stdinBuffer, state, context, child, keyHandlers,
                 history>>

\* StaleKeypress whose handler writes the key into the context
StaleKeypress_assigning(name) ==
  /\ ~Eventless /\ ~ProcessEnded
  /\ ~RacePending /\ child # waitForKey
  /\ stdinBuffer = <<>>
  /\ keyHandlers > 0
  /\ keyHandlers' = 0
  /\ keyPressed' = keyToken(name)
  /\ UNCHANGED <<variant, stdinFlowing, stdinBuffer, state, lastResult, messages,
                 isFirstMessage, pendingManipulation, userSpeechBuffer, child, pendingListens,
                 history>>

\* a key is pressed while only handlers of settled races are registered: they remove
\* themselves and resolve promises nothing awaits
StaleKeypress(name) ==
  /\ ~Eventless /\ ~ProcessEnded
  /\ ~RacePending /\ child # waitForKey
  /\ stdinBuffer = <<>>
  /\ keyHandlers > 0
  /\ keyHandlers' = 0
  /\ UNCHANGED <<variant, stdinFlowing, stdinBuffer, state, context, child, pendingListens,
                 history>>

\* the key the unread stdin holds reaches the handler after the race rejected: the handler
\* removes itself and resolves a promise nothing awaits
StaleKeypress_buffered ==
  /\ ~Eventless /\ ~ProcessEnded
  /\ ~RacePending /\ child # waitForKey
  /\ stdinBuffer # <<>>
  /\ handlerOutcome(Head(stdinBuffer)) = "resolve"
  /\ keyHandlers > 0
  /\ keyHandlers' = 0
  /\ stdinBuffer' = <<>>
  /\ UNCHANGED <<variant, stdinFlowing, state, context, child, pendingListens, history>>

\* the key reaches the handlers registered: it is pressed now, or it is the first key of
\* the unread stdin
Reaches(key) ==
  /\ ~Eventless /\ ~ProcessEnded
  /\ keyHandlers > 0
  /\ stdinBuffer # <<>> => key = Head(stdinBuffer)

\* Ctrl+C reaches a handler, of the pending race, of the key wait or of a race that was
\* left: the handler removes itself and calls process.exit(0) (main.ts:127-133)
Keypress_exit(key) ==
  /\ Reaches(key)
  /\ handlerOutcome(key) = "exit"
  /\ state' = "Exited"
  /\ child' = NoActor
  /\ keyHandlers' = keyHandlers - 1
  /\ stdinBuffer' = <<>>
  /\ UNCHANGED <<variant, stdinFlowing, context, pendingListens, history>>

\* a key without a name reaches a handler: the handler removes itself and throws
\* (main.ts:127, 135), its promise stays pending, and the exception, which nothing
\* catches, ends the process
Keypress_throw(key) ==
  /\ Reaches(key)
  /\ handlerOutcome(key) = "throw"
  /\ state' = "Crashed"
  /\ child' = NoActor
  /\ keyHandlers' = keyHandlers - 1
  /\ stdinBuffer' = <<>>
  /\ UNCHANGED <<variant, stdinFlowing, context, pendingListens, history>>

-----------------------------------------------------------------------------
(* CheckIfKeypressOrContinueListening (main.ts:324-336)                    *)

\* Check_toProcess that dispatches the key without the commit
Check_toProcess_uncommitted ==
  /\ state = "CheckIfKeypressOrContinueListening"
  /\ keyPressed # Null
  /\ state' = "ProcessKeypress"
  /\ UNCHANGED <<variant, stdinFlowing, stdinBuffer, context, child, pendingListens,
                 keyHandlers, history>>

Check_toProcess ==
  /\ state = "CheckIfKeypressOrContinueListening"
  /\ keyPressed # Null
  /\ state' = "ProcessAccumulatedSpeech"
  /\ UNCHANGED <<variant, stdinFlowing, stdinBuffer, context, child, pendingListens,
                 keyHandlers, history>>

\* Check_toListening that commits after a speech result
Check_toListening_committing ==
  /\ state = "CheckIfKeypressOrContinueListening"
  /\ ~(keyPressed # Null)
  /\ state' = "ProcessAccumulatedSpeech"
  /\ UNCHANGED <<variant, stdinFlowing, stdinBuffer, context, child, pendingListens,
                 keyHandlers, history>>

Check_toListening ==
  /\ state = "CheckIfKeypressOrContinueListening"
  /\ ~(keyPressed # Null)
  /\ EnterListening(effects)
  /\ UNCHANGED <<variant, stdinBuffer, context, heard, atKey, fetchFailed, nKeys, nSpeech>>

-----------------------------------------------------------------------------
(* ProcessAccumulatedSpeech (main.ts:339-369)                              *)

\* combinedInput joining with the default separator of Array.prototype.join, a comma
combinedInput_comma(buffer) == join(buffer, <<",">>)

\* combinedInput (main.ts:353)
combinedInput(buffer) == join(buffer, Separator)

\* ProcessAccumulatedSpeech_flush that writes the Turn over the last Turn of the history
ProcessAccumulatedSpeech_flush_overwriting ==
  /\ state = "ProcessAccumulatedSpeech"
  /\ Len(userSpeechBuffer) > 0
  /\ messages' = Append(SubSeq(messages, 1, Len(messages) - 1),
                        Message("user", combinedInput(userSpeechBuffer)))
  /\ userSpeechBuffer' = <<>>
  /\ heard' = <<>>
  /\ state' = "ProcessKeypress"
  /\ UNCHANGED <<variant, stdinFlowing, stdinBuffer, lastResult, isFirstMessage,
                 pendingManipulation, keyPressed, child, pendingListens, keyHandlers, atKey,
                 effects, fetchFailed, nKeys, nSpeech>>

ProcessAccumulatedSpeech_flush ==
  /\ state = "ProcessAccumulatedSpeech"
  /\ Len(userSpeechBuffer) > 0
  /\ messages' = Append(messages, Message("user", combinedInput(userSpeechBuffer)))
  /\ userSpeechBuffer' = <<>>
  /\ heard' = <<>>
  /\ state' = "ProcessKeypress"
  /\ UNCHANGED <<variant, stdinFlowing, stdinBuffer, lastResult, isFirstMessage,
                 pendingManipulation, keyPressed, child, pendingListens, keyHandlers, atKey,
                 effects, fetchFailed, nKeys, nSpeech>>

\* ProcessAccumulatedSpeech_skip that commits the empty buffer as a Turn
ProcessAccumulatedSpeech_skip_committing ==
  /\ state = "ProcessAccumulatedSpeech"
  /\ ~(Len(userSpeechBuffer) > 0)
  /\ messages' = Append(messages, Message("user", combinedInput(userSpeechBuffer)))
  /\ state' = "ProcessKeypress"
  /\ UNCHANGED <<variant, stdinFlowing, stdinBuffer, lastResult, isFirstMessage,
                 pendingManipulation, keyPressed, userSpeechBuffer, child, pendingListens,
                 keyHandlers, history>>

ProcessAccumulatedSpeech_skip ==
  /\ state = "ProcessAccumulatedSpeech"
  /\ ~(Len(userSpeechBuffer) > 0)
  /\ state' = "ProcessKeypress"
  /\ UNCHANGED <<variant, stdinFlowing, stdinBuffer, context, child, pendingListens,
                 keyHandlers, history>>

-----------------------------------------------------------------------------
(* ProcessKeypress (main.ts:372-402): the first branch whose guard holds   *)

ProcessKeypress_quit ==
  /\ state = "ProcessKeypress"
  /\ isQuitKey(keyPressed)
  /\ state' = "End"
  /\ child' = fhSpeak(FarewellText, FALSE)
  /\ effects' = Append(effects, child')
  /\ UNCHANGED <<variant, stdinFlowing, stdinBuffer, context, pendingListens, keyHandlers,
                 heard, atKey, fetchFailed, nKeys, nSpeech>>

\* ProcessKeypress_discuss that sends the history as it was before the commit
ProcessKeypress_discuss_stale ==
  /\ state = "ProcessKeypress"
  /\ ~isQuitKey(keyPressed)
  /\ isDiscussKey(keyPressed)
  /\ state' = "ProcessingResponse"
  /\ child' = chatCompletion(atKey.messages)
  /\ effects' = Append(effects, child')
  /\ UNCHANGED <<variant, stdinFlowing, stdinBuffer, context, pendingListens, keyHandlers,
                 heard, atKey, fetchFailed, nKeys, nSpeech>>

ProcessKeypress_discuss ==
  /\ state = "ProcessKeypress"
  /\ ~isQuitKey(keyPressed)
  /\ isDiscussKey(keyPressed)
  /\ state' = "ProcessingResponse"
  /\ child' = chatCompletion(messages)
  /\ effects' = Append(effects, child')
  /\ UNCHANGED <<variant, stdinFlowing, stdinBuffer, context, pendingListens, keyHandlers,
                 heard, atKey, fetchFailed, nKeys, nSpeech>>

\* ProcessKeypress_list that enters the final listing of the closing flow
ProcessKeypress_list_final ==
  /\ state = "ProcessKeypress"
  /\ ~isQuitKey(keyPressed) /\ ~isDiscussKey(keyPressed)
  /\ isListMessagesKey(keyPressed)
  /\ state' = "ListMessagesBeforeFinal"
  /\ effects' = Append(effects, PrintedLog(messages))
  /\ UNCHANGED <<variant, stdinFlowing, stdinBuffer, context, child, pendingListens,
                 keyHandlers, heard, atKey, fetchFailed, nKeys, nSpeech>>

\* with the entry of ListMessages (main.ts:406-412)
ProcessKeypress_list ==
  /\ state = "ProcessKeypress"
  /\ ~isQuitKey(keyPressed) /\ ~isDiscussKey(keyPressed)
  /\ isListMessagesKey(keyPressed)
  /\ state' = "ListMessages"
  /\ effects' = Append(effects, PrintedLog(messages))
  /\ UNCHANGED <<variant, stdinFlowing, stdinBuffer, context, child, pendingListens,
                 keyHandlers, heard, atKey, fetchFailed, nKeys, nSpeech>>

\* the annotation AddManipulation appends and the payload it queues, by variant
\* (main.ts:440-450, main_manual_audio.ts:515-526)
manipulationTurn(v, key) ==
  IF v = "text" THEN manipulations(orEmpty(key))
  ELSE AudioMarkOpen \o key \o AudioMarkClose

\* manipulationPayload that queues the phrase in both variants
manipulationPayload_phrase(v, key) ==
  manipulations(orEmpty(key))

\* the payload AddManipulation stores in pendingManipulation
manipulationPayload(v, key) ==
  IF v = "text" THEN manipulations(orEmpty(key)) ELSE audioFiles(orEmpty(key))

\* ProcessKeypress_manipulation whose entry action appends the annotation twice
ProcessKeypress_manipulation_twice ==
  /\ state = "ProcessKeypress"
  /\ ~isQuitKey(keyPressed) /\ ~isDiscussKey(keyPressed) /\ ~isListMessagesKey(keyPressed)
  /\ isManipulationKey(keyPressed)
  /\ state' = "AddManipulation"
  /\ messages' = messages \o <<Message("assistant", manipulationTurn(variant, keyPressed)),
                              Message("assistant", manipulationTurn(variant, keyPressed))>>
  /\ pendingManipulation' = manipulationPayload(variant, keyPressed)
  /\ UNCHANGED <<variant, stdinFlowing, stdinBuffer, lastResult, isFirstMessage, keyPressed,
                 userSpeechBuffer, child, pendingListens, keyHandlers, heard, atKey, effects,
                 fetchFailed, nKeys, nSpeech>>

\* with the entry of AddManipulation (main.ts:420-451)
ProcessKeypress_manipulation ==
  /\ state = "ProcessKeypress"
  /\ ~isQuitKey(keyPressed) /\ ~isDiscussKey(keyPressed) /\ ~isListMessagesKey(keyPressed)
  /\ isManipulationKey(keyPressed)
  /\ state' = "AddManipulation"
  /\ messages' = Append(messages, Message("assistant", manipulationTurn(variant, keyPressed)))
  /\ pendingManipulation' = manipulationPayload(variant, keyPressed)
  /\ UNCHANGED <<variant, stdinFlowing, stdinBuffer, lastResult, isFirstMessage, keyPressed,
                 userSpeechBuffer, child, pendingListens, keyHandlers, heard, atKey, effects,
                 fetchFailed, nKeys, nSpeech>>

\* ProcessKeypress_unknown that records the notice as a Turn of the history
ProcessKeypress_unknown_recording ==
  /\ state = "ProcessKeypress"
  /\ ~isQuitKey(keyPressed) /\ ~isDiscussKey(keyPressed) /\ ~isListMessagesKey(keyPressed)
  /\ ~isManipulationKey(keyPressed)
  /\ messages' = Append(messages, Message("assistant", Empty))
  /\ EnterListening(Append(effects, UnknownKeyNotice))
  /\ UNCHANGED <<variant, stdinBuffer, lastResult, isFirstMessage, pendingManipulation,
                 keyPressed, userSpeechBuffer, heard, atKey, fetchFailed, nKeys, nSpeech>>

ProcessKeypress_unknown ==
  /\ state = "ProcessKeypress"
  /\ ~isQuitKey(keyPressed) /\ ~isDiscussKey(keyPressed) /\ ~isListMessagesKey(keyPressed)
  /\ ~isManipulationKey(keyPressed)
  /\ EnterListening(Append(effects, UnknownKeyNotice))
  /\ UNCHANGED <<variant, stdinBuffer, context, heard, atKey, fetchFailed, nKeys, nSpeech>>

-----------------------------------------------------------------------------
(* ListMessages (main.ts:405-416)                                          *)

\* ListMessages_always that records the listing as a Turn of the history
ListMessages_always_recording ==
  /\ state = "ListMessages"
  /\ messages' = Append(messages, Message("assistant", Empty))
  /\ EnterListening(effects)
  /\ UNCHANGED <<variant, stdinBuffer, lastResult, isFirstMessage, pendingManipulation,
                 keyPressed, userSpeechBuffer, heard, atKey, fetchFailed, nKeys, nSpeech>>

ListMessages_always ==
  /\ state = "ListMessages"
  /\ EnterListening(effects)
  /\ UNCHANGED <<variant, stdinBuffer, context, heard, atKey, fetchFailed, nKeys, nSpeech>>

-----------------------------------------------------------------------------
(* AddManipulation and SpeakManipulation (main.ts:419-477,                 *)
(* main_manual_audio.ts:492-553)                                           *)

\* the invoke of SpeakManipulation: fhSpeak in main.ts, fhSpeakAudio in the audio variant
speakManipulation(v, pending) ==
  IF v = "text" THEN fhSpeak(orEmpty(pending), FALSE)
  ELSE fhSpeakAudio(orEmpty(pending), FALSE)

\* AddManipulation_always that hands the turn to the language model
AddManipulation_always_toModel ==
  /\ state = "AddManipulation"
  /\ state' = "ProcessingResponse"
  /\ child' = chatCompletion(messages)
  /\ effects' = Append(effects, child')
  /\ UNCHANGED <<variant, stdinFlowing, stdinBuffer, context, pendingListens, keyHandlers,
                 heard, atKey, fetchFailed, nKeys, nSpeech>>

AddManipulation_always ==
  /\ state = "AddManipulation"
  /\ state' = "SpeakManipulation"
  /\ child' = speakManipulation(variant, pendingManipulation)
  /\ effects' = Append(effects, child')
  /\ UNCHANGED <<variant, stdinFlowing, stdinBuffer, context, pendingListens, keyHandlers,
                 heard, atKey, fetchFailed, nKeys, nSpeech>>

SpeakManipulation_onDone ==
  /\ state = "SpeakManipulation"
  /\ pendingManipulation' = Null
  /\ EnterListening(effects)
  /\ UNCHANGED <<variant, stdinBuffer, lastResult, messages, isFirstMessage, keyPressed,
                 userSpeechBuffer, heard, atKey, fetchFailed, nKeys, nSpeech>>

\* SpeakManipulation_onError that delivers the stimulus again
SpeakManipulation_onError_retry ==
  /\ state = "SpeakManipulation"
  /\ Len(effects) < 3
  /\ effects' = Append(effects, child)
  /\ UNCHANGED <<variant, stdinFlowing, stdinBuffer, state, context, child, pendingListens,
                 keyHandlers, heard, atKey, fetchFailed, nKeys, nSpeech>>

SpeakManipulation_onError ==
  /\ state = "SpeakManipulation"
  /\ EnterListening(effects)
  /\ UNCHANGED <<variant, stdinBuffer, context, heard, atKey, fetchFailed, nKeys, nSpeech>>

-----------------------------------------------------------------------------
(* ProcessingResponse and Speaking (main.ts:480-534)                       *)

\* what fetch, response.ok and response.json give the call
Responses == {[ok |-> TRUE, content |-> r] : r \in Replies} \cup {[ok |-> FALSE]}

\* fetchChatCompletion (main.ts:90-121): the reply, or from the catch block the error string;
\* it never rejects
fetchChatCompletion(response) ==
  IF response.ok THEN response.content ELSE FetchErrorText

\* ProcessingResponse_onDone that delivers the Turn before the reply
ProcessingResponse_onDone_previous(response) ==
  /\ state = "ProcessingResponse"
  /\ messages' = Append(messages, Message("assistant", fetchChatCompletion(response)))
  /\ fetchFailed' = ~response.ok
  /\ EnterSpeak("Speaking", messages, FALSE)
  /\ UNCHANGED <<variant, stdinFlowing, stdinBuffer, lastResult, isFirstMessage,
                 pendingManipulation, keyPressed, userSpeechBuffer, pendingListens, keyHandlers,
                 heard, atKey, nKeys, nSpeech>>

ProcessingResponse_onDone(response) ==
  /\ state = "ProcessingResponse"
  /\ messages' = Append(messages, Message("assistant", fetchChatCompletion(response)))
  /\ fetchFailed' = ~response.ok
  /\ EnterSpeak("Speaking", messages', FALSE)
  /\ UNCHANGED <<variant, stdinFlowing, stdinBuffer, lastResult, isFirstMessage,
                 pendingManipulation, keyPressed, userSpeechBuffer, pendingListens, keyHandlers,
                 heard, atKey, nKeys, nSpeech>>

\* the onError of ProcessingResponse (main.ts:499-510).  chatCompletion resolves with what
\* fetchChatCompletion returns and fetchChatCompletion never rejects, so no behaviour takes
\* this transition: it is no disjunct of Next.
ProcessingResponse_onError ==
  /\ state = "ProcessingResponse"
  /\ FALSE
  /\ messages' = Append(messages, Message("assistant", ApologyText))
  /\ EnterSpeak("Speaking", messages', FALSE)
  /\ UNCHANGED <<variant, stdinFlowing, stdinBuffer, lastResult, isFirstMessage,
                 pendingManipulation, keyPressed, userSpeechBuffer, pendingListens, keyHandlers,
                 heard, atKey, fetchFailed, nKeys, nSpeech>>

Speaking_onDone ==
  /\ state = "Speaking"
  /\ EnterListening(effects)
  /\ UNCHANGED <<variant, stdinBuffer, context, heard, atKey, fetchFailed, nKeys, nSpeech>>

\* Speaking_onError that ends the session
Speaking_onError_ending ==
  /\ state = "Speaking"
  /\ state' = "Done"
  /\ child' = NoActor
  /\ UNCHANGED <<variant, stdinFlowing, stdinBuffer, context, pendingListens, keyHandlers,
                 history>>

Speaking_onError ==
  /\ state = "Speaking"
  /\ EnterListening(effects)
  /\ UNCHANGED <<variant, stdinBuffer, context, heard, atKey, fetchFailed, nKeys, nSpeech>>

-----------------------------------------------------------------------------
(* End, LastQuestionWaitForYN, ProcessYN, ListMessagesBeforeFinal, Done    *)
(* (main.ts:537-617).  SessionExitingQuestionForTheResearcher              *)
(* (main.ts:563-568) is the target of no transition.                       *)

End_onDone ==
  /\ state = "End"
  /\ messages' = Append(messages, Message("assistant", FarewellText))
  /\ state' = "LastQuestionWaitForYN"
  /\ child' = waitForKey
  /\ keyHandlers' = keyHandlers + 1
  /\ stdinFlowing' = TRUE
  /\ effects' = Append(effects, waitForKey)
  /\ UNCHANGED <<variant, stdinBuffer, lastResult, isFirstMessage, pendingManipulation,
                 keyPressed, userSpeechBuffer, pendingListens, heard, atKey, fetchFailed, nKeys,
                 nSpeech>>

\* with the entry of Done (main.ts:613-616): process.exit(0)
End_onError ==
  /\ state = "End"
  /\ state' = "Done"
  /\ child' = NoActor
  /\ UNCHANGED <<variant, stdinFlowing, stdinBuffer, context, pendingListens, keyHandlers,
                 history>>

\* LastQuestionWaitForYN_onDone that dispatches the key like a key of the conversation
LastQuestionWaitForYN_onDone_dispatching(name) ==
  /\ state = "LastQuestionWaitForYN" /\ child = waitForKey
  /\ keyPressed' = keyToken(name)
  /\ state' = "ProcessKeypress"
  /\ child' = NoActor
  /\ keyHandlers' = 0
  /\ atKey' = Snapshot
  /\ effects' = <<>>
  /\ UNCHANGED <<variant, stdinFlowing, stdinBuffer, lastResult, messages, isFirstMessage,
                 pendingManipulation, userSpeechBuffer, pendingListens, heard, fetchFailed,
                 nKeys, nSpeech>>

LastQuestionWaitForYN_onDone(name) ==
  /\ state = "LastQuestionWaitForYN" /\ child = waitForKey
  /\ keyPressed' = keyToken(name)
  /\ state' = "ProcessYN"
  /\ child' = NoActor
  /\ keyHandlers' = 0
  /\ atKey' = Snapshot
  /\ effects' = <<>>
  /\ UNCHANGED <<variant, stdinFlowing, stdinBuffer, lastResult, messages, isFirstMessage,
                 pendingManipulation, userSpeechBuffer, pendingListens, heard, fetchFailed,
                 nKeys, nSpeech>>

\* with the entry of ListMessagesBeforeFinal (main.ts:599-605)
ProcessYN_yes ==
  /\ state = "ProcessYN"
  /\ isYesKey(keyPressed)
  /\ state' = "ListMessagesBeforeFinal"
  /\ effects' = Append(effects, PrintedLog(messages))
  /\ UNCHANGED <<variant, stdinFlowing, stdinBuffer, context, child, pendingListens,
                 keyHandlers, heard, atKey, fetchFailed, nKeys, nSpeech>>

\* ProcessYN_no that takes the branch of 'y'
ProcessYN_no_printing ==
  /\ state = "ProcessYN"
  /\ ~isYesKey(keyPressed)
  /\ isNoKey(keyPressed)
  /\ state' = "ListMessagesBeforeFinal"
  /\ effects' = Append(effects, PrintedLog(messages))
  /\ UNCHANGED <<variant, stdinFlowing, stdinBuffer, context, child, pendingListens,
                 keyHandlers, heard, atKey, fetchFailed, nKeys, nSpeech>>

\* with the entry of Done
ProcessYN_no ==
  /\ state = "ProcessYN"
  /\ ~isYesKey(keyPressed)
  /\ isNoKey(keyPressed)
  /\ state' = "Done"
  /\ UNCHANGED <<variant, stdinFlowing, stdinBuffer, context, child, pendingListens,
                 keyHandlers, history>>

\* with the entry of Done
ListMessagesBeforeFinal_always ==
  /\ state = "ListMessagesBeforeFinal"
  /\ state' = "Done"
  /\ UNCHANGED <<variant, stdinFlowing, stdinBuffer, context, child, pendingListens,
                 keyHandlers, history>>

-----------------------------------------------------------------------------
Next ==
  \/ SetVoice_onDone \/ SetVoice_onError
  \/ AttendUser_onDone \/ AttendUser_onError
  \/ InitialSpeak_onDone \/ InitialSpeak_onError
  \/ \E utterance \in Utterances : Race_speech(utterance)
  \/ \E name \in KeyNames : Race_keypress(name)
  \/ \E key \in Keys : KeyTyped_unread(key)
  \/ Race_bufferedKeypress
  \/ Race_error
  \/ StaleListen_settles
  \/ \E name \in KeyNames : StaleKeypress(name)
  \/ StaleKeypress_buffered
  \/ \E key \in Keys : Keypress_exit(key)
  \/ \E key \in Keys : Keypress_throw(key)
  \/ Check_toProcess \/ Check_toListening
  \/ ProcessAccumulatedSpeech_flush \/ ProcessAccumulatedSpeech_skip
  \/ ProcessKeypress_quit \/ ProcessKeypress_discuss \/ ProcessKeypress_list
  \/ ProcessKeypress_manipulation \/ ProcessKeypress_unknown
  \/ ListMessages_always
  \/ AddManipulation_always
  \/ SpeakManipulation_onDone \/ SpeakManipulation_onError
  \/ \E response \in Responses : ProcessingResponse_onDone(response)
  \/ Speaking_onDone \/ Speaking_onError
  \/ End_onDone \/ End_onError
  \/ \E name \in KeyNames : LastQuestionWaitForYN_onDone(name)
  \/ ProcessYN_yes \/ ProcessYN_no
  \/ ListMessagesBeforeFinal_always

Spec == Init /\ [][Next]_vars

-----------------------------------------------------------------------------
(* The sequential machine, the second program of main_manual_audio.ts      *)
(* (lines 745-1265): it listens first and waits for a key afterwards, has  *)
(* no race, no speech buffer and no closing confirmation.  Its context has *)
(* no userSpeechBuffer; the variables the machine of main.ts alone uses    *)
(* keep their initial values.                                              *)

\* content of the system Turn (main_manual_audio.ts:937), cut to its first words
SystemSequential ==
  <<"Y","o","u"," ","a","r","e"," ","a"," ","v","i","r","t","u","a","l"," ","a","s","s","i",
    "s","t","a","n","t">>

\* the actor fhListen, invoked by Listening
fhListenActor == [src |-> "fhListen"]

\* what no transition of the sequential machine changes
seqFrame == <<variant, stdinBuffer, userSpeechBuffer, atKey, effects, fetchFailed>>

SeqInit ==
  /\ variant = "sequential"
  /\ state = "SetVoice"
  /\ lastResult = Empty
  /\ isFirstMessage = TRUE
  /\ pendingManipulation = Null
  /\ keyPressed = Null
  /\ userSpeechBuffer = <<>>
  /\ messages = <<Message("system", SystemSequential), Message("assistant", IntroText)>>
  /\ child = fhSetVoice
  /\ pendingListens = 0
  /\ keyHandlers = 0
  /\ stdinFlowing = FALSE
  /\ stdinBuffer = <<>>
  /\ heard = <<>>
  /\ atKey = [messages |-> messages, userSpeechBuffer |-> <<>>, heard |-> <<>>]
  /\ effects = <<>>
  /\ fetchFailed = FALSE
  /\ nKeys = 0
  /\ nSpeech = 0

\* entry of Listening: fhListen is invoked
Seq_EnterListening ==
  /\ state' = "Listening"
  /\ child' = fhListenActor
  /\ pendingListens' = pendingListens + 1

\* entry of WaitingForKeypress: waitForKey registers its handler
Seq_EnterWaiting ==
  /\ state' = "WaitingForKeypress"
  /\ child' = waitForKey
  /\ keyHandlers' = keyHandlers + 1
  /\ stdinFlowing' = TRUE

Seq_SetVoice_onDone ==
  /\ state = "SetVoice"
  /\ state' = "AttendUser"
  /\ child' = fhAttend
  /\ UNCHANGED <<seqFrame, stdinFlowing, context, pendingListens, keyHandlers, heard, nKeys,
                 nSpeech>>

Seq_SetVoice_onError ==
  /\ state = "SetVoice"
  /\ state' = "InitialSpeak"
  /\ child' = fhSpeak(Last(messages).content, isFirstMessage)
  /\ UNCHANGED <<seqFrame, stdinFlowing, context, pendingListens, keyHandlers, heard, nKeys,
                 nSpeech>>

Seq_AttendUser_onDone ==
  /\ state = "AttendUser"
  /\ state' = "InitialSpeak"
  /\ child' = fhSpeak(Last(messages).content, isFirstMessage)
  /\ UNCHANGED <<seqFrame, stdinFlowing, context, pendingListens, keyHandlers, heard, nKeys,
                 nSpeech>>

Seq_AttendUser_onError ==
  /\ state = "AttendUser"
  /\ state' = "InitialSpeak"
  /\ child' = fhSpeak(Last(messages).content, isFirstMessage)
  /\ UNCHANGED <<seqFrame, stdinFlowing, context, pendingListens, keyHandlers, heard, nKeys,
                 nSpeech>>

Seq_InitialSpeak_onDone ==
  /\ state = "InitialSpeak"
  /\ isFirstMessage' = FALSE
  /\ Seq_EnterListening
  /\ UNCHANGED <<seqFrame, stdinFlowing, lastResult, messages, pendingManipulation, keyPressed,
                 keyHandlers, heard, nKeys, nSpeech>>

Seq_InitialSpeak_onError ==
  /\ state = "InitialSpeak"
  /\ Seq_EnterListening
  /\ UNCHANGED <<seqFrame, stdinFlowing, context, keyHandlers, heard, nKeys, nSpeech>>

\* Seq_Listening_onDone that stores the utterance as the machine of main.ts does
Seq_Listening_onDone_sanitized(utterance) ==
  /\ state = "Listening"
  /\ nSpeech < MaxSpeech
  /\ nSpeech' = nSpeech + 1
  /\ lastResult' = sanitizeUtterance(utterance)
  /\ messages' = Append(messages, Message("user", sanitizeUtterance(utterance)))
  /\ heard' = Append(heard, utterance)
  /\ pendingListens' = pendingListens - 1
  /\ Seq_EnterWaiting
  /\ UNCHANGED <<seqFrame, isFirstMessage, pendingManipulation, keyPressed, nKeys>>

\* fhListen resolves with the utterance (main_manual_audio.ts:1009-1022)
Seq_Listening_onDone(utterance) ==
  /\ state = "Listening"
  /\ nSpeech < MaxSpeech
  /\ nSpeech' = nSpeech + 1
  /\ lastResult' = utterance
  /\ messages' = Append(messages, Message("user", utterance))
  /\ heard' = Append(heard, utterance)
  /\ pendingListens' = pendingListens - 1
  /\ Seq_EnterWaiting
  /\ UNCHANGED <<seqFrame, isFirstMessage, pendingManipulation, keyPressed, nKeys>>

\* fhListen rejects (main_manual_audio.ts:1023-1026)
Seq_Listening_onError ==
  /\ state = "Listening"
  /\ pendingListens' = pendingListens - 1
  /\ Seq_EnterWaiting
  /\ UNCHANGED <<seqFrame, context, heard, nKeys, nSpeech>>

\* a key is pressed while WaitingForKeypress waits (main_manual_audio.ts:1035-1040)
Seq_WaitingForKeypress_onDone(name) ==
  /\ state = "WaitingForKeypress" /\ child = waitForKey
  /\ stdinBuffer = <<>>
  /\ nKeys < MaxKeys
  /\ nKeys' = nKeys + 1
  /\ keyPressed' = keyToken(name)
  /\ state' = "ProcessKeypress"
  /\ child' = NoActor
  /\ keyHandlers' = 0
  /\ UNCHANGED <<seqFrame, stdinFlowing, lastResult, messages, isFirstMessage,
                 pendingManipulation, pendingListens, heard, nSpeech>>

\* the first waitForKeypress registers its handler, which starts the reading of
\* process.stdin (main_manual_audio.ts:878): the first key it holds settles the wait
Seq_WaitingForKeypress_buffered ==
  /\ state = "WaitingForKeypress" /\ child = waitForKey
  /\ stdinBuffer # <<>>
  /\ handlerOutcome(Head(stdinBuffer)) = "resolve"
  /\ stdinBuffer' = <<>>
  /\ nKeys' = nKeys + 1
  /\ keyPressed' = keyToken(Head(stdinBuffer).name)
  /\ state' = "ProcessKeypress"
  /\ child' = NoActor
  /\ keyHandlers' = 0
  /\ UNCHANGED <<variant, stdinFlowing, userSpeechBuffer, atKey, effects, fetchFailed,
                 lastResult, messages, isFirstMessage, pendingManipulation, pendingListens,
                 heard, nSpeech>>

\* ProcessKeypress (main_manual_audio.ts:1045-1068): the first branch whose guard holds
Seq_ProcessKeypress_quit ==
  /\ state = "ProcessKeypress"
  /\ isQuitKey(keyPressed)
  /\ state' = "End"
  /\ child' = fhSpeak(FarewellText, FALSE)
  /\ UNCHANGED <<seqFrame, stdinFlowing, context, pendingListens, keyHandlers, heard, nKeys,
                 nSpeech>>

Seq_ProcessKeypress_discuss ==
  /\ state = "ProcessKeypress"
  /\ ~isQuitKey(keyPressed)
  /\ isDiscussKey(keyPressed)
  /\ state' = "ProcessingResponse"
  /\ child' = chatCompletion(messages)
  /\ UNCHANGED <<seqFrame, stdinFlowing, context, pendingListens, keyHandlers, heard, nKeys,
                 nSpeech>>

\* with the entry of AddManipulation (main_manual_audio.ts:1072-1103)
Seq_ProcessKeypress_manipulation ==
  /\ state = "ProcessKeypress"
  /\ ~isQuitKey(keyPressed) /\ ~isDiscussKey(keyPressed)
  /\ isManipulationKey(keyPressed)
  /\ state' = "AddManipulation"
  /\ messages' = Append(messages, Message("assistant", manipulations(orEmpty(keyPressed))))
  /\ pendingManipulation' = manipulations(orEmpty(keyPressed))
  /\ UNCHANGED <<seqFrame, stdinFlowing, lastResult, isFirstMessage, keyPressed, child,
                 pendingListens, keyHandlers, heard, nKeys, nSpeech>>

Seq_ProcessKeypress_unknown ==
  /\ state = "ProcessKeypress"
  /\ ~isQuitKey(keyPressed) /\ ~isDiscussKey(keyPressed)
  /\ ~isManipulationKey(keyPressed)
  /\ Seq_EnterWaiting
  /\ UNCHANGED <<seqFrame, context, pendingListens, heard, nKeys, nSpeech>>

Seq_AddManipulation_always ==
  /\ state = "AddManipulation"
  /\ state' = "SpeakManipulation"
  /\ child' = fhSpeak(orEmpty(pendingManipulation), FALSE)
  /\ UNCHANGED <<seqFrame, stdinFlowing, context, pendingListens, keyHandlers, heard, nKeys,
                 nSpeech>>

Seq_SpeakManipulation_onDone ==
  /\ state = "SpeakManipulation"
  /\ pendingManipulation' = Null
  /\ Seq_EnterListening
  /\ UNCHANGED <<seqFrame, stdinFlowing, lastResult, messages, isFirstMessage, keyPressed,
                 keyHandlers, heard, nKeys, nSpeech>>

Seq_SpeakManipulation_onError ==
  /\ state = "SpeakManipulation"
  /\ Seq_EnterListening
  /\ UNCHANGED <<seqFrame, stdinFlowing, context, keyHandlers, heard, nKeys, nSpeech>>

\* chatCompletion resolves with what fetchChatCompletion returns
\* (main_manual_audio.ts:833-864, 1139-1150); it never rejects, so the onError of
\* ProcessingResponse (main_manual_audio.ts:1151-1164) is taken by no behaviour
Seq_ProcessingResponse_onDone(response) ==
  /\ state = "ProcessingResponse"
  /\ messages' = Append(messages, Message("assistant", fetchChatCompletion(response)))
  /\ state' = "Speaking"
  /\ child' = fhSpeak(Last(messages').content, FALSE)
  /\ UNCHANGED <<seqFrame, stdinFlowing, lastResult, isFirstMessage, pendingManipulation,
                 keyPressed, pendingListens, keyHandlers, heard, nKeys, nSpeech>>

Seq_Speaking_onDone ==
  /\ state = "Speaking"
  /\ Seq_EnterListening
  /\ UNCHANGED <<seqFrame, stdinFlowing, context, keyHandlers, heard, nKeys, nSpeech>>

Seq_Speaking_onError ==
  /\ state = "Speaking"
  /\ Seq_EnterListening
  /\ UNCHANGED <<seqFrame, stdinFlowing, context, keyHandlers, heard, nKeys, nSpeech>>

\* with the entry of Done (main_manual_audio.ts:1215-1221): process.exit(0)
Seq_End_onDone ==
  /\ state = "End"
  /\ messages' = Append(messages, Message("assistant", FarewellText))
  /\ state' = "Done"
  /\ child' = NoActor
  /\ UNCHANGED <<seqFrame, stdinFlowing, lastResult, isFirstMessage, pendingManipulation,
                 keyPressed, pendingListens, keyHandlers, heard, nKeys, nSpeech>>

Seq_End_onError ==
  /\ state = "End"
  /\ state' = "Done"
  /\ child' = NoActor
  /\ UNCHANGED <<seqFrame, stdinFlowing, context, pendingListens, keyHandlers, heard, nKeys,
                 nSpeech>>

SeqNext ==
  \/ Seq_SetVoice_onDone \/ Seq_SetVoice_onError
  \/ Seq_AttendUser_onDone \/ Seq_AttendUser_onError
  \/ Seq_InitialSpeak_onDone \/ Seq_InitialSpeak_onError
  \/ \E utterance \in Utterances : Seq_Listening_onDone(utterance)
  \/ Seq_Listening_onError
  \/ \E name \in KeyNames : Seq_WaitingForKeypress_onDone(name)
  \/ \E key \in Keys : KeyTyped_unread(key)
  \/ Seq_WaitingForKeypress_buffered
  \/ \E key \in Keys : Keypress_exit(key)
  \/ \E key \in Keys : Keypress_throw(key)
  \/ Seq_ProcessKeypress_quit \/ Seq_ProcessKeypress_discuss
  \/ Seq_ProcessKeypress_manipulation \/ Seq_ProcessKeypress_unknown
  \/ Seq_AddManipulation_always
  \/ Seq_SpeakManipulation_onDone \/ Seq_SpeakManipulation_onError
  \/ \E response \in Responses : Seq_ProcessingResponse_onDone(response)
  \/ Seq_Speaking_onDone \/ Seq_Speaking_onError
  \/ Seq_End_onDone \/ Seq_End_onError

\* the closing delivery is a promise that settles: fhSay resolves after its fetch and its
\* timer, or rejects when the fetch fails
SeqSpec ==
  /\ SeqInit
  /\ [][SeqNext]_vars
  /\ WF_vars(Seq_End_onDone \/ Seq_End_onError)

-----------------------------------------------------------------------------
(* Properties                                                              *)

\* the offset of fragment i in the text that holds the fragments one space apart
RECURSIVE Offset(_, _)
Offset(frags, i) == IF i = 1 THEN 0 ELSE Offset(frags, i - 1) + Len(frags[i - 1]) + 1

\* text is the fragments in their order, one space between two neighbours
IsSpaceJoined(text, frags) ==
  /\ Len(frags) > 0
  /\ Len(text) = Offset(frags, Len(frags)) + Len(frags[Len(frags)])
  /\ \A i \in 1..Len(frags) :
       /\ SubSeq(text, Offset(frags, i) + 1, Offset(frags, i) + Len(frags[i])) = frags[i]
       /\ i > 1 => text[Offset(frags, i)] = " "

\* the utterance holds the letters n, o, m, a, t, c, h in a row, each in either case
HoldsMarker(utterance) ==
  \E i \in 0..(Len(utterance) - 7) :
    /\ utterance[i + 1] \in {"n", "N"} /\ utterance[i + 2] \in {"o", "O"}
    /\ utterance[i + 3] \in {"m", "M"} /\ utterance[i + 4] \in {"a", "A"}
    /\ utterance[i + 5] \in {"t", "T"} /\ utterance[i + 6] \in {"c", "C"}
    /\ utterance[i + 7] \in {"h", "H"}

\* what the buffer is to hold for an utterance
Stored(utterance) == IF HoldsMarker(utterance) THEN <<".", ".", ".">> ELSE utterance

\* what the buffer is to hold for the utterances the last key found buffered
StoredAtKey == [i \in 1..Len(atKey.heard) |-> Stored(atKey.heard[i])]

\* the messages the last key found, and after them one user Turn
CommittedAtKey(text) == Append(atKey.messages, Message("user", text))

\* the messages the last key found, with the Turn that the commit of a non-empty buffer adds
AfterCommit == SubSeq(messages, 1, Len(atKey.messages) + (IF atKey.heard = <<>> THEN 0 ELSE 1))

\* messages is what the last key found, then for a non-empty buffer exactly one user Turn
\* that holds the fragments one space apart
CommitDone ==
  IF atKey.heard = <<>>
  THEN AfterCommit = atKey.messages
  ELSE /\ AfterCommit = CommittedAtKey(Last(AfterCommit).content)
       /\ IsSpaceJoined(Last(AfterCommit).content, StoredAtKey)

\* how many of the effects since the last key are calls of these actors
Calls(srcs) == Cardinality({i \in 1..Len(effects) : effects[i].src \in srcs})
Deliveries == Calls({"fhSpeak", "fhSpeakAudio"})
ModelCalls == Calls({"chatCompletion"})
Printed == \E i \in 1..Len(effects) : effects[i] = PrintedLog(messages)

\* C1: the buffer holds, in arrival order, what the utterances that won the races since the
\* last commit are stored as; once a key has won the race and Commit has run
\* (ProcessKeypress is reached), the buffer is empty and messages is the messages the key
\* found plus exactly one user Turn, the buffered fragments one space apart in arrival
\* order (messages is unchanged when the key found the buffer empty).
C1_CommitJoinsFragments ==
  /\ Len(userSpeechBuffer) = Len(heard)
  /\ \A i \in 1..Len(heard) : userSpeechBuffer[i] = Stored(heard[i])
  /\ state = "ProcessKeypress" =>
       /\ userSpeechBuffer = <<>>
       /\ atKey.userSpeechBuffer = StoredAtKey
       /\ messages = AfterCommit
       /\ CommitDone

\* C1 witness: Commit has flushed two fragments into one Turn
C1_Witness ==
  /\ state = "ProcessKeypress"
  /\ Len(atKey.heard) = 2
  /\ Len(messages) = Len(atKey.messages) + 1
  /\ userSpeechBuffer = <<>>

\* "... ..."
DotsDots == <<".", ".", ".", " ", ".", ".", ".">>

\* C2: every buffered fragment is "..." when its utterance holds the marker in any letter
\* case and is the utterance itself otherwise; after "NOMATCH" and "NoMatch foo" were
\* buffered, Commit appends the user Turn "... ...".
C2_NoMatchStoredAsDots ==
  /\ \A i \in 1..Len(userSpeechBuffer) :
       /\ i <= Len(heard)
       /\ HoldsMarker(heard[i]) => userSpeechBuffer[i] = <<".", ".", ".">>
       /\ ~HoldsMarker(heard[i]) => userSpeechBuffer[i] = heard[i]
  /\ (state = "ProcessKeypress" /\ atKey.heard = <<UttNoMatchUpper, UttNoMatchMixed>>) =>
       Last(messages) = Message("user", DotsDots)

\* C2 witness: "NOMATCH" and "NoMatch foo" were buffered and committed
C2_Witness ==
  /\ state = "ProcessKeypress"
  /\ atKey.heard = <<UttNoMatchUpper, UttNoMatchMixed>>
  /\ userSpeechBuffer = <<>>

\* the states that stand for a process a key handler has ended
EndedByKey == {"Exited", "Crashed"}

\* a producer that lost its race completes in this step: a listen call settles and the
\* invoked actor stays as it is, or a key fires only the handlers of races that were left
StaleCompletion ==
  \/ pendingListens' < pendingListens /\ child' = child
  \/ keyHandlers' < keyHandlers /\ child \notin {listenOrKeypress, waitForKey}

\* C3: the producer that lost a race stays in flight after the race, and the step in which
\* it completes leaves the context (userSpeechBuffer, messages, keyPressed and the rest) as
\* it is, and the state of the machine too unless the key is one on which the handler ends
\* the process.
C3_StaleCompletionDropped ==
  /\ [](state \in {"ProcessAccumulatedSpeech", "ProcessKeypress"} => pendingListens > 0)
  /\ [](state = "CheckIfKeypressOrContinueListening" /\ keyPressed = Null => keyHandlers > 0)
  /\ [][StaleCompletion =>
          UNCHANGED context /\ (state' = state \/ state' \in EndedByKey)]_vars

\* C3 witness: the listen call that lost the race to a key has settled while the machine
\* was delivering what the key asked for
C3_Witness ==
  /\ state \in {"SpeakManipulation", "Speaking", "End"}
  /\ nKeys = 1
  /\ pendingListens = 0

\* the action variant of a token, as the classification lists them
DispatchClass(token) ==
  CASE token = <<"0">> -> "Quit"
    [] token = <<"l">> -> "Discuss"
    [] token = <<"m">> -> "ListTranscript"
    [] token \in {<<"1">>, <<"2">>, <<"3">>, <<"4">>, <<"q">>, <<"w">>, <<"e">>, <<"r">>,
                  <<"a">>, <<"s">>, <<"d">>, <<"f">>} -> "InjectStimulus"
    [] OTHER -> "Unknown"

\* the action variants whose guard holds on a token; Unknown is the branch without guard
GuardClasses(token) ==
  LET named == {c \in {"Quit", "Discuss", "ListTranscript", "InjectStimulus"} :
                  \/ c = "Quit" /\ isQuitKey(token)
                  \/ c = "Discuss" /\ isDiscussKey(token)
                  \/ c = "ListTranscript" /\ isListMessagesKey(token)
                  \/ c = "InjectStimulus" /\ isManipulationKey(token)}
  IN IF named = {} THEN {"Unknown"} ELSE named

\* the state Dispatch enters for an action variant
DispatchTarget(class) ==
  CASE class = "Quit" -> "End"
    [] class = "Discuss" -> "ProcessingResponse"
    [] class = "ListTranscript" -> "ListMessages"
    [] class = "InjectStimulus" -> "AddManipulation"
    [] class = "Unknown" -> "ListeningOrWaitingForKey"

\* C4: where Dispatch classifies, on every token of the key source exactly one guard holds
\* (none for Unknown), and it is the one the classification names: Quit for '0', Discuss
\* for 'l', ListTranscript for 'm', InjectStimulus for the 12 stimulus keys, Unknown for
\* everything else; Dispatch enters the state of that one variant.
C4_ClassificationTotalExclusive ==
  /\ [](state = "ProcessKeypress" =>
          \A name \in AllKeyNames :
            GuardClasses(keyToken(name)) = {DispatchClass(keyToken(name))})
  /\ [][state = "ProcessKeypress" => state' = DispatchTarget(DispatchClass(keyPressed))]_vars

\* C4 witness: a key outside the four named variants was dispatched as Unknown
C4_Witness ==
  /\ state = "ListeningOrWaitingForKey"
  /\ keyPressed = KeyReturn
  /\ \E i \in 1..Len(effects) : effects[i] = UnknownKeyNotice

\* C5: when the language-model call has failed, the Turn appended and delivered is the
\* fixed apology, and the call was made once.
C5_ApologyOnModelFailure ==
  (state = "Speaking" /\ fetchFailed) =>
    /\ Last(messages) = Message("assistant", ApologyText)
    /\ child = fhSpeak(ApologyText, FALSE)
    /\ ModelCalls = 1

\* C6 as stated: when 'm' has won the race and the history is listed, messages and
\* userSpeechBuffer are what the key found, whatever the buffer held.
C6_ListNeverMutates ==
  (isListMessagesKey(keyPressed) /\ state \in {"ListMessages", "ListeningOrWaitingForKey"}) =>
    /\ messages = atKey.messages
    /\ userSpeechBuffer = atKey.userSpeechBuffer

\* C6 amended: 'm' commits the buffer like every key, so after 'm' the buffer is empty and
\* messages is what the key found plus, for a non-empty buffer, the one committed user Turn;
\* listing (ListMessages) prints exactly that history and changes neither, so with an empty
\* buffer 'm' changes neither messages nor userSpeechBuffer.
C6_ListMutatesOnlyByCommit ==
  (isListMessagesKey(keyPressed) /\ state \in {"ListMessages", "ListeningOrWaitingForKey"}) =>
    /\ userSpeechBuffer = <<>>
    /\ messages = AfterCommit
    /\ CommitDone
    /\ atKey.userSpeechBuffer = <<>> => messages = atKey.messages
    /\ effects[1] = PrintedLog(messages)
    /\ ModelCalls = 0 /\ Deliveries = 0

\* C6 witness: 'm' found two fragments buffered, and the history was listed
C6_Witness ==
  /\ isListMessagesKey(keyPressed)
  /\ state = "ListeningOrWaitingForKey"
  /\ Len(atKey.userSpeechBuffer) = 2
  /\ Printed

\* the Turns appended since the last key
Added == SubSeq(messages, Len(atKey.messages) + 1, Len(messages))

\* C7: once a stimulus key has won the race and its stimulus is being or has been
\* delivered, messages is what the key found plus the committed user Turn (for a non-empty
\* buffer only) plus exactly one assistant Turn, and exactly one delivery call was made,
\* whether the delivery succeeds or fails.
C7_StimulusOneTurnOneDelivery ==
  (isManipulationKey(keyPressed) /\ state \in {"SpeakManipulation", "ListeningOrWaitingForKey"}) =>
    /\ SubSeq(messages, 1, Len(atKey.messages)) = atKey.messages
    /\ Len(Added) = (IF atKey.userSpeechBuffer = <<>> THEN 1 ELSE 2)
    /\ Cardinality({i \in 1..Len(Added) : Added[i].role = "assistant"}) = 1
    /\ Last(messages).role = "assistant"
    /\ Deliveries = 1

\* C7 witness: a stimulus key found a buffered fragment, and the delivery is over
C7_Witness ==
  /\ isManipulationKey(keyPressed)
  /\ state = "ListeningOrWaitingForKey"
  /\ atKey.userSpeechBuffer # <<>>
  /\ Deliveries = 1

\* C8: from a stimulus key to the next race no call of the language model is made; when the
\* key found the buffer empty, messages is what the key found plus the one assistant Turn
\* that annotates the stimulus; where the annotation is made (AddManipulation) each of the
\* 12 stimulus keys has an annotation, and no two keys have the same.
C8_StimulusWithoutModel ==
  /\ isManipulationKey(keyPressed) =>
       /\ ModelCalls = 0
       /\ child.src # "chatCompletion"
       /\ state \notin {"ProcessingResponse", "Speaking"}
  /\ (isManipulationKey(keyPressed) /\ atKey.userSpeechBuffer = <<>>
        /\ state \in {"AddManipulation", "SpeakManipulation", "ListeningOrWaitingForKey"}) =>
       /\ messages = Append(atKey.messages,
                            Message("assistant", manipulationTurn(variant, keyPressed)))
       /\ manipulationTurn(variant, keyPressed) # Undefined
  /\ state = "AddManipulation" =>
       \A k1, k2 \in ManipulationKeys :
         /\ manipulationTurn(variant, k1) # Undefined
         /\ k1 # k2 => manipulationTurn(variant, k1) # manipulationTurn(variant, k2)

\* C8 witness: '1' was pressed in a fresh session with nothing buffered, and its stimulus
\* was delivered
C8_Witness ==
  /\ keyPressed = <<"1">>
  /\ state = "ListeningOrWaitingForKey"
  /\ atKey.userSpeechBuffer = <<>>
  /\ Len(messages) = 3
  /\ Deliveries = 1

\* "I think the doctor ..."
DoctorDots == UttDoctor \o <<" ", ".", ".", ".">>

\* C9: when 'l' was pressed after fragments were buffered, the language model is called
\* exactly once, with the whole of messages in order, whose last element is the user Turn
\* the commit has just made of the buffer; after "I think the doctor" and "NOMATCH" that
\* Turn is "I think the doctor ...".
C9_DiscussSendsCommittedHistory ==
  /\ (state = "ProcessingResponse" /\ atKey.heard # <<>>) =>
       /\ child = chatCompletion(messages)
       /\ effects = <<chatCompletion(messages)>>
       /\ messages = AfterCommit
       /\ CommitDone
       /\ Last(messages).role = "user"
       /\ atKey.heard = <<UttDoctor, UttNoMatchUpper>> =>
            Last(messages) = Message("user", DoctorDots)
  /\ (isDiscussKey(keyPressed) /\ atKey.heard # <<>>
        /\ state \in {"Speaking", "ListeningOrWaitingForKey"}) =>
       /\ ModelCalls = 1
       /\ effects[1] = chatCompletion(AfterCommit)

\* C9 witness: 'l' was pressed after "I think the doctor" and "NOMATCH", and the language
\* model is being called
C9_Witness ==
  /\ state = "ProcessingResponse"
  /\ atKey.heard = <<UttDoctor, UttNoMatchUpper>>
  /\ child.src = "chatCompletion"

\* C10: when the closing line has been delivered after '0', it is the last Turn of messages
\* and the machine awaits the confirmation key; after 'y' the history is printed and then
\* Done is reached, after 'n' Done is reached with nothing printed.
C10_QuitConfirmDump ==
  /\ state = "End" => isQuitKey(keyPressed) /\ child = fhSpeak(FarewellText, FALSE)
  /\ state = "LastQuestionWaitForYN" =>
       /\ isQuitKey(keyPressed)
       /\ messages = Append(AfterCommit, Message("assistant", FarewellText))
       /\ effects = <<fhSpeak(FarewellText, FALSE), waitForKey>>
       /\ child = waitForKey
  /\ state = "ListMessagesBeforeFinal" => isYesKey(keyPressed) /\ effects = <<PrintedLog(messages)>>
  /\ (state = "Done" /\ isYesKey(keyPressed)) => effects = <<PrintedLog(messages)>>
  /\ (state = "Done" /\ isNoKey(keyPressed)) =>
       /\ effects = <<>>
       /\ Last(messages) = Message("assistant", FarewellText)
  /\ (state = "Done" /\ Last(messages) = Message("assistant", FarewellText)) =>
       isYesKey(keyPressed) \/ isNoKey(keyPressed)

\* C10 witness: after '0' and the closing line, 'n' has ended the session
C10_Witness ==
  /\ state = "Done"
  /\ isNoKey(keyPressed)
  /\ Last(messages) = Message("assistant", FarewellText)
  /\ effects = <<>>

\* the positions of the system Turns of messages
SystemTurns == {i \in 1..Len(messages) : messages[i].role = "system"}

\* C11: in every state the first element of messages is the system Turn and it is the only
\* system Turn; every step leaves messages as it is or appends to it, so that the value
\* before the step is a prefix of the value after it and no Turn is edited or removed.
C11_MessagesAppendOnly ==
  /\ [](messages[1] = Message("system", SystemPrompt) /\ SystemTurns = {1})
  /\ [][/\ Len(messages') >= Len(messages)
        /\ SubSeq(messages', 1, Len(messages)) = messages]_vars

\* C11 witness: the history has grown by a committed user Turn and by a reply
C11_Witness ==
  /\ state = "Speaking"
  /\ Len(messages) = 4
  /\ messages[3].role = "user"
  /\ messages[4].role = "assistant"

\* the step appends exactly one fragment at the end of the buffer
BufferExtended ==
  /\ Len(userSpeechBuffer') = Len(userSpeechBuffer) + 1
  /\ SubSeq(userSpeechBuffer', 1, Len(userSpeechBuffer)) = userSpeechBuffer

\* the step empties a non-empty buffer and appends all of it to messages as one user Turn
BufferFlushed ==
  /\ userSpeechBuffer # <<>>
  /\ userSpeechBuffer' = <<>>
  /\ Len(messages') = Len(messages) + 1
  /\ SubSeq(messages', 1, Len(messages)) = messages
  /\ Last(messages').role = "user"
  /\ IsSpaceJoined(Last(messages').content, userSpeechBuffer)

\* C12: every step leaves userSpeechBuffer as it is, or extends it by exactly one fragment
\* at its end, or empties it while appending all of its fragments to messages as one user
\* Turn; the buffer is never emptied or shortened otherwise.
C12_BufferNeverPartiallyFlushed ==
  [][UNCHANGED userSpeechBuffer \/ BufferExtended \/ BufferFlushed]_vars

\* C12 witness: a buffer of two fragments was flushed as a whole and the key is being served
C12_Witness ==
  /\ state = "ProcessingResponse"
  /\ Len(atKey.userSpeechBuffer) = 2
  /\ userSpeechBuffer = <<>>
  /\ Len(messages) = Len(atKey.messages) + 1

\* C13: whenever the machine is in ListeningOrWaitingForKey with a race pending,
\* keyPressed is null.
C13_KeyClearedAtFreshRace ==
  (state = "ListeningOrWaitingForKey" /\ RacePending) => keyPressed = Null

\* C14: in every state other than AddManipulation and SpeakManipulation
\* pendingManipulation is null, also after the delivery of the stimulus has failed.
C14_PendingManipulationCleared ==
  state \notin {"AddManipulation", "SpeakManipulation"} => pendingManipulation = Null

\* C15: isFirstMessage is true in the initial state and false in every state reached after
\* InitialSpeak has been left, whether the delivery of the intro succeeded or failed.
C15_FirstMessageOnlyUntilIntro ==
  /\ state = "SetVoice" => isFirstMessage = TRUE
  /\ state \notin {"SetVoice", "AttendUser", "InitialSpeak"} => isFirstMessage = FALSE

\* C16: the machine in ListeningOrWaitingForKey always has a race running: when the race
\* fails, the same step starts a new one.
C16_RaceRestartedOnFailure ==
  state = "ListeningOrWaitingForKey" => child = listenOrKeypress

\* C17: when InitialSpeak is entered, both configuration calls (set voice, attend user)
\* have been made, whatever their outcomes, and the context is as it was initially.
C17_SetupFailuresDoNotBlock ==
  state = "InitialSpeak" =>
    /\ Calls({"fhSetVoice"}) = 1
    /\ Calls({"fhAttend"}) = 1
    /\ Len(messages) = 2 /\ isFirstMessage = TRUE /\ keyPressed = Null
    /\ userSpeechBuffer = <<>> /\ pendingManipulation = Null /\ lastResult = Empty

\* the states that deliver a Turn or a stimulus through the speech-output actor
DeliveryStates == {"InitialSpeak", "SpeakManipulation", "Speaking"}

\* C18: in InitialSpeak, SpeakManipulation and Speaking the transition for a failed
\* delivery can be taken, and every step that leaves one of these states, after a failure
\* as after a success, enters ListeningOrWaitingForKey with a new race and leaves messages
\* and userSpeechBuffer as they are.
C18_DeliveryFailureContinues ==
  /\ [](state = "InitialSpeak" => ENABLED InitialSpeak_onError)
  /\ [](state = "SpeakManipulation" => ENABLED SpeakManipulation_onError)
  /\ [](state = "Speaking" => ENABLED Speaking_onError)
  /\ [][(state \in DeliveryStates /\ state' # state) =>
          /\ state' = "ListeningOrWaitingForKey"
          /\ child' = listenOrKeypress
          /\ messages' = messages
          /\ userSpeechBuffer' = userSpeechBuffer]_vars

\* C18 witness: the delivery of the intro and the delivery of a stimulus have both failed,
\* and a race is running
C18_Witness ==
  /\ state = "ListeningOrWaitingForKey"
  /\ child = listenOrKeypress
  /\ isFirstMessage = TRUE
  /\ pendingManipulation # Null

\* C19: Done is reached only after the closing Turn was appended to messages and a Yes or
\* No key was received at the confirmation prompt, whether the closing delivery succeeded
\* or failed.
C19_FarewellNonFatal ==
  state = "Done" =>
    /\ \E i \in 1..Len(messages) : messages[i] = Message("assistant", FarewellText)
    /\ isYesKey(keyPressed) \/ isNoKey(keyPressed)

\* C20: as long as the process runs the machine has something to go on with: an always
\* transition whose guard holds, or an invoked actor whose settling it awaits.
C20_NeverHangs ==
  ~ProcessEnded => (Eventless \/ child # NoActor)

\* an Unknown key was dispatched and the machine is back in ListeningOrWaitingForKey
UnknownServed ==
  /\ keyPressed # Null
  /\ DispatchClass(keyPressed) = "Unknown"
  /\ state = "ListeningOrWaitingForKey"

\* C21 as stated: after an Unknown key messages and userSpeechBuffer are what the key
\* found, whatever the buffer held.
C21_UnknownKeyChangesNothing ==
  UnknownServed =>
    /\ messages = atKey.messages
    /\ userSpeechBuffer = atKey.userSpeechBuffer

\* C21 amended: an Unknown key commits the buffer like every key, so after it the buffer is
\* empty and messages is what the key found plus, for a non-empty buffer, the one committed
\* user Turn; the dispatch itself only prints the notice and starts the next race, so with
\* an empty buffer neither messages nor userSpeechBuffer changes.
C21_UnknownKeyOnlyCommits ==
  UnknownServed =>
    /\ userSpeechBuffer = <<>>
    /\ messages = AfterCommit
    /\ CommitDone
    /\ atKey.userSpeechBuffer = <<>> => messages = atKey.messages
    /\ effects[1] = UnknownKeyNotice
    /\ ModelCalls = 0 /\ Deliveries = 0

\* C21 witness: the Return key found two fragments buffered and was dispatched as Unknown
C21_Witness ==
  /\ UnknownServed
  /\ keyPressed = KeyReturn
  /\ Len(atKey.userSpeechBuffer) = 2
  /\ child = listenOrKeypress

\* the guards of the branches of ProcessKeypress, by name
GuardNames == {"isQuitKey", "isDiscussKey", "isListMessagesKey", "isManipulationKey"}

GuardHolds(guard, key) ==
  CASE guard = "isQuitKey" -> isQuitKey(key)
    [] guard = "isDiscussKey" -> isDiscussKey(key)
    [] guard = "isListMessagesKey" -> isListMessagesKey(key)
    [] guard = "isManipulationKey" -> isManipulationKey(key)

\* the target of the branch of ProcessKeypress that has the guard
GuardTarget(guard) ==
  CASE guard = "isQuitKey" -> "End"
    [] guard = "isDiscussKey" -> "ProcessingResponse"
    [] guard = "isListMessagesKey" -> "ListMessages"
    [] guard = "isManipulationKey" -> "AddManipulation"

\* the orders in which the four guarded branches can be listed
GuardOrders ==
  {order \in [1..Cardinality(GuardNames) -> GuardNames] :
     \A i, j \in DOMAIN order : i # j => order[i] # order[j]}

\* the order of the source
SourceOrder == <<"isQuitKey", "isDiscussKey", "isListMessagesKey", "isManipulationKey">>

\* the target of the first branch from position i on whose guard holds, the branch without
\* guard being the last
RECURSIVE FirstMatch(_, _, _)
FirstMatch(order, i, key) ==
  IF i > Len(order) THEN "ListeningOrWaitingForKey"
  ELSE IF GuardHolds(order[i], key) THEN GuardTarget(order[i])
  ELSE FirstMatch(order, i + 1, key)

\* the values keyPressed can have: the tokens of the key source, and null
KeyPressedValues == {keyToken(name) : name \in AllKeyNames} \cup {Null}

\* C22: where ProcessKeypress chooses its branch, no value of keyPressed satisfies two of
\* the guards isQuitKey, isDiscussKey, isListMessagesKey, isManipulationKey, and for the
\* key being dispatched the first branch that matches has the same target, the one of its
\* class, in every order of the four guarded branches.
C22_GuardsPairwiseExclusive ==
  state = "ProcessKeypress" =>
    /\ \A key \in KeyPressedValues : \A g1, g2 \in GuardNames :
         g1 # g2 => ~(GuardHolds(g1, key) /\ GuardHolds(g2, key))
    /\ \A order \in GuardOrders :
         /\ FirstMatch(order, 1, keyPressed) = FirstMatch(SourceOrder, 1, keyPressed)
         /\ FirstMatch(order, 1, keyPressed) = DispatchTarget(DispatchClass(keyPressed))

\* C22 witness: ProcessKeypress chooses its branch for the key 'l'
C22_Witness ==
  /\ state = "ProcessKeypress"
  /\ keyPressed = <<"l">>
  /\ FirstMatch(SourceOrder, 1, keyPressed) = "ProcessingResponse"

\* C23: when a key has won the race with userSpeechBuffer empty and Commit has run
\* (ProcessKeypress is reached), messages and userSpeechBuffer are what the key found: no
\* user Turn was appended, in particular none with empty content.
C23_EmptyFlushIsNoOp ==
  (state = "ProcessKeypress" /\ atKey.userSpeechBuffer = <<>>) =>
    /\ messages = atKey.messages
    /\ userSpeechBuffer = <<>>
    /\ \A i \in 1..Len(messages) : messages[i].content # Empty

\* C23 witness: a key has won the first race of the session, before any speech
C23_Witness ==
  /\ state = "ProcessKeypress"
  /\ atKey.userSpeechBuffer = <<>>
  /\ nSpeech = 0
  /\ Len(messages) = 2

\* the states from the closing line to the end of the session
QuitFlow == {"End", "LastQuestionWaitForYN", "ProcessYN", "ListMessagesBeforeFinal", "Done"}

\* C24: the closing states, Done among them, are entered from outside only by the dispatch
\* of the key '0' (ProcessKeypress with isQuitKey, into End), so whenever the machine is in
\* Done a key has won a race and '0' was dispatched before; no step of a failing call
\* enters them from elsewhere.
C24_DoneOnlyThroughQuit ==
  /\ [](state \in QuitFlow => nKeys >= 1)
  /\ [][(state' \in QuitFlow /\ state \notin QuitFlow) =>
          /\ state = "ProcessKeypress"
          /\ isQuitKey(keyPressed)
          /\ state' = "End"]_vars
  /\ [][(state' = "Done" /\ state # "Done") =>
          state \in {"End", "ProcessYN", "ListMessagesBeforeFinal"}]_vars

\* C24 witness: Done was reached after '0' by the failure of the closing delivery
C24_Witness ==
  /\ state = "Done"
  /\ isQuitKey(keyPressed)
  /\ Last(messages) # Message("assistant", FarewellText)

\* C25: the variants build the same messages on the same events: whichever variant runs,
\* the second Turn is the introduction of main.ts, and the Turn a stimulus key appends is
\* the phrase of that key, delivered by the speech-output actor fhSpeak.
C25_VariantsBuildSameMessages ==
  /\ messages[2] = Message("assistant", IntroText)
  /\ state = "SpeakManipulation" =>
       /\ Last(messages) = Message("assistant", manipulations(keyPressed))
       /\ child = fhSpeak(manipulations(keyPressed), FALSE)

\* the stimulus keys, as the key source names them
StimulusTokens == {<<"1">>, <<"2">>, <<"3">>, <<"4">>, <<"q">>, <<"w">>, <<"e">>, <<"r">>,
                   <<"a">>, <<"s">>, <<"d">>, <<"f">>}

\* C26: the step out of ProcessKeypress enters End on '0', ProcessingResponse on 'l',
\* ListMessages on 'm', AddManipulation on a stimulus key and ListeningOrWaitingForKey on
\* every other key, and nothing else; the step out of ListMessages enters
\* ListeningOrWaitingForKey and the step out of AddManipulation enters SpeakManipulation.
C26_DispatchRoutes ==
  /\ [][state = "ProcessKeypress" =>
          \/ keyPressed = <<"0">> /\ state' = "End" /\ child' = fhSpeak(FarewellText, FALSE)
          \/ keyPressed = <<"l">> /\ state' = "ProcessingResponse"
               /\ child'.src = "chatCompletion"
          \/ keyPressed = <<"m">> /\ state' = "ListMessages" /\ child' = NoActor
          \/ keyPressed \in StimulusTokens /\ state' = "AddManipulation" /\ child' = NoActor
          \/ /\ keyPressed \notin StimulusTokens \cup {<<"0">>, <<"l">>, <<"m">>}
             /\ state' = "ListeningOrWaitingForKey"
             /\ Last(effects') = listenOrKeypress
             /\ effects'[Len(effects') - 1] = UnknownKeyNotice]_vars
  /\ [][state = "ListMessages" =>
          keyPressed = <<"m">> /\ state' = "ListeningOrWaitingForKey" /\ RacePending']_vars
  /\ [][state = "AddManipulation" =>
          /\ keyPressed \in StimulusTokens
          /\ state' = "SpeakManipulation"
          /\ child'.src \in {"fhSpeak", "fhSpeakAudio"}]_vars

\* C26 witness: a stimulus key was routed through AddManipulation into SpeakManipulation
C26_Witness ==
  /\ state = "SpeakManipulation"
  /\ keyPressed = <<"w">>
  /\ Deliveries = 1

\* the calls of the delivery actors and of the language model
ActionCalls == {"fhSpeak", "fhSpeakAudio", "chatCompletion"}

\* C27: once the action of a key has started a delivery or a language-model call, the
\* buffer the key found has been flushed: userSpeechBuffer is empty while such a call is
\* in flight, messages is what the key found, then the one user Turn of the flush, and
\* every Turn after it is an assistant Turn; the history a language-model call was given
\* already holds the flushed Turn.
C27_CommitBeforeAction ==
  /\ child.src \in ActionCalls => userSpeechBuffer = <<>>
  /\ (nKeys >= 1 /\ Calls(ActionCalls) > 0) =>
       /\ CommitDone
       /\ \A j \in (Len(AfterCommit) + 1)..Len(messages) : messages[j].role = "assistant"
       /\ atKey.heard # <<>> => Last(AfterCommit).role = "user"
       /\ \A i \in 1..Len(effects) :
            effects[i].src = "chatCompletion" =>
              /\ Len(effects[i].messages) >= Len(AfterCommit)
              /\ SubSeq(effects[i].messages, 1, Len(AfterCommit)) = AfterCommit

\* C27 witness: a stimulus key found speech buffered, and the stimulus is being delivered
\* with the flushed user Turn before its annotation
C27_Witness ==
  /\ state = "SpeakManipulation"
  /\ atKey.heard # <<>>
  /\ Len(messages) = Len(atKey.messages) + 2
  /\ messages[Len(messages) - 1].role = "user"

\* C28: the step that settles a race on speech appends exactly one fragment, what the
\* utterance is stored as, to userSpeechBuffer, sets keyPressed to null and leaves messages
\* as it is, and the step after it starts the next race with messages, the buffer and
\* keyPressed unchanged; the step that settles a race on a key sets keyPressed to the key
\* and leaves userSpeechBuffer and messages as they are, and so does the step after it,
\* which enters ProcessAccumulatedSpeech.
C28_RaceResultFrame ==
  /\ [][(state = "ListeningOrWaitingForKey"
           /\ state' = "CheckIfKeypressOrContinueListening") =>
          \/ /\ keyPressed' = Null
             /\ BufferExtended
             /\ Last(userSpeechBuffer') = Stored(Last(heard'))
             /\ lastResult' = Last(userSpeechBuffer')
             /\ messages' = messages
          \/ /\ keyPressed' # Null
             /\ keyPressed' \in {keyToken(name) : name \in KeyNames}
             /\ userSpeechBuffer' = userSpeechBuffer
             /\ messages' = messages]_vars
  /\ [][state = "CheckIfKeypressOrContinueListening" =>
          /\ UNCHANGED <<messages, userSpeechBuffer, keyPressed>>
          /\ IF keyPressed = Null
             THEN state' = "ListeningOrWaitingForKey" /\ RacePending'
             ELSE state' = "ProcessAccumulatedSpeech"]_vars

\* C28 witness: two speech results in a row have each been buffered and sent back to the
\* race, with nothing committed
C28_Witness ==
  /\ state = "ListeningOrWaitingForKey"
  /\ RacePending
  /\ Len(userSpeechBuffer) = 2
  /\ keyPressed = Null
  /\ Len(messages) = 2

\* C29: while Speaking delivers after a language-model call that succeeded, messages is the
\* committed history with exactly one assistant Turn after it, the reply of the call, the
\* call was made once, and the one delivery in flight was given the content of the last
\* Turn; once that delivery has settled the machine is in ListeningOrWaitingForKey with a
\* new race started and messages as the delivery left it, until a key ends the process.
C29_ReplyAppendedAndDelivered ==
  /\ (state = "Speaking" /\ ~fetchFailed) =>
       /\ \E reply \in Replies : messages = Append(AfterCommit, Message("assistant", reply))
       /\ child = fhSpeak(Last(messages).content, FALSE)
       /\ ModelCalls = 1
       /\ Deliveries = 1
       /\ Last(effects) = child
  /\ (nKeys >= 1 /\ isDiscussKey(keyPressed) /\ ~fetchFailed /\ Deliveries = 1
        /\ state \notin {"Speaking"} \cup EndedByKey) =>
       /\ state = "ListeningOrWaitingForKey"
       /\ effects[3] = listenOrKeypress
       /\ Len(messages) = Len(AfterCommit) + 1
       /\ effects[2] = fhSpeak(Last(messages).content, FALSE)

\* C29 witness: the delivery of a reply has settled and the next race is pending
C29_Witness ==
  /\ state = "ListeningOrWaitingForKey"
  /\ RacePending
  /\ isDiscussKey(keyPressed)
  /\ ~fetchFailed
  /\ Last(messages) = Message("assistant", ReplyText)
  /\ Deliveries = 1

\* the actors the invoke of a state names; a state without invoke has none
InvokeOf(s) ==
  CASE s = "SetVoice" -> {"fhSetVoice"}
    [] s = "AttendUser" -> {"fhAttend"}
    [] s \in {"InitialSpeak", "Speaking", "End"} -> {"fhSpeak"}
    [] s = "SpeakManipulation" -> {IF variant = "text" THEN "fhSpeak" ELSE "fhSpeakAudio"}
    [] s = "ProcessingResponse" -> {"chatCompletion"}
    [] s = "ListeningOrWaitingForKey" -> {"listenOrKeypress"}
    [] s = "LastQuestionWaitForYN" -> {"waitForKey"}
    [] OTHER -> {}

\* C30: the one actor that is active, if any, is the one the current state invokes, so a
\* delivery is in flight only in a delivering state, a language-model call only in
\* ProcessingResponse and a race only in ListeningOrWaitingForKey, never two of them
\* together; and a step changes the context only when it is the settling of the invoked
\* actor, which leaves the state, or one of the eventless transitions that follow it.
C30_OneActorAtATime ==
  /\ [](child = NoActor \/ child.src \in InvokeOf(state))
  /\ [][context' # context =>
          \/ child # NoActor /\ child.src \in InvokeOf(state) /\ state' # state
          \/ Eventless]_vars

\* C30 witness: the language-model call is the one actor in flight, after a race that a
\* key won over a listen request still unanswered
C30_Witness ==
  /\ state = "ProcessingResponse"
  /\ child.src = "chatCompletion"
  /\ pendingListens = 1
  /\ Deliveries = 0

\* the delivery actors
DeliveryActors == {"fhSpeak", "fhSpeakAudio"}

\* C31: messages starts as a system Turn followed by the assistant introduction and keeps
\* them as its first two Turns; the delivery InitialSpeak makes is of the content of that
\* introduction, the last Turn, with the first-turn flag true; every delivery in flight in
\* a later state, and every delivery started since a key won a race, has the flag false.
C31_IntroWithPauseOthersWithout ==
  /\ Len(messages) >= 2
  /\ messages[1] = Message("system", SystemPrompt)
  /\ messages[2] = Message("assistant", IF variant = "text" THEN IntroText ELSE IntroAudio)
  /\ state \in {"SetVoice", "AttendUser", "InitialSpeak"} => Len(messages) = 2
  /\ state = "InitialSpeak" => child = fhSpeak(Last(messages).content, TRUE)
  /\ (child.src \in DeliveryActors /\ state # "InitialSpeak") => ~child.isFirstMessage
  /\ nKeys >= 1 =>
       \A i \in 1..Len(effects) :
         effects[i].src \in DeliveryActors => ~effects[i].isFirstMessage

\* C31 witness: a reply is delivered with the flag false although the context still has
\* isFirstMessage true, the introduction having failed
C31_Witness ==
  /\ state = "Speaking"
  /\ isFirstMessage
  /\ child = fhSpeak(Last(messages).content, FALSE)

\* C32: in AddManipulation and SpeakManipulation keyPressed is one of the 12 stimulus
\* keys, the last Turn is the assistant annotation of that key and pendingManipulation is
\* the table entry of that key, neither null nor undefined: in main.ts both are the phrase
\* of the key, in the audio variant the Turn is the bracketed marker naming the key and the
\* payload is the audio URL of the key; the delivery SpeakManipulation makes is of that
\* payload, through fhSpeak in main.ts and fhSpeakAudio in the audio variant.
C32_StimulusPayloadAndAnnotation ==
  state \in {"AddManipulation", "SpeakManipulation"} =>
    /\ keyPressed \in StimulusTokens
    /\ pendingManipulation \notin {Null, Undefined, Empty}
    /\ Last(messages).role = "assistant"
    /\ IF variant = "text"
       THEN /\ pendingManipulation = manipulations(keyPressed)
            /\ Last(messages).content = manipulations(keyPressed)
            /\ state = "SpeakManipulation" => child = fhSpeak(manipulations(keyPressed), FALSE)
       ELSE /\ pendingManipulation = audioFiles(keyPressed)
            /\ Last(messages).content = AudioMarkOpen \o keyPressed \o AudioMarkClose
            /\ state = "SpeakManipulation" =>
                 child = fhSpeakAudio(audioFiles(keyPressed), FALSE)

\* C32 witness: the audio variant delivers the audio of the key 'd'
C32_Witness ==
  /\ variant = "audio"
  /\ state = "SpeakManipulation"
  /\ keyPressed = <<"d">>
  /\ child.src = "fhSpeakAudio"
  /\ child.audioUrl = audioFiles(<<"d">>)

\* the states of Commit and Dispatch
CommitDispatch == {"ProcessAccumulatedSpeech", "ProcessKeypress"}

\* C33: in ProcessAccumulatedSpeech and ProcessKeypress keyPressed is not null and nothing
\* has been started since a key won a race, so the race before was won by a key; a step
\* leaves ListeningOrWaitingForKey only by settling the race or by ending the process; the step
\* that settles a race on a key sets keyPressed to the token of that key, the step that
\* settles a race on speech sets it to null whatever key an earlier race had left there,
\* and the steps from the settled race to Dispatch do not change it.
C33_DispatchedKeyWonLastRace ==
  /\ [](state \in CommitDispatch => keyPressed # Null /\ nKeys >= 1 /\ effects = <<>>)
  /\ [][(state = "ListeningOrWaitingForKey" /\ state' \notin {state} \cup EndedByKey) =>
          /\ state' = "CheckIfKeypressOrContinueListening"
          /\ \/ /\ nSpeech' = nSpeech + 1 /\ nKeys' = nKeys
                /\ keyPressed' = Null
             \/ /\ nKeys' = nKeys + 1 /\ nSpeech' = nSpeech
                /\ \E name \in KeyNames : keyPressed' = keyToken(name)]_vars
  /\ [][(state' \in CommitDispatch /\ state # state') =>
          /\ state \in {"CheckIfKeypressOrContinueListening", "ProcessAccumulatedSpeech"}
          /\ keyPressed' = keyPressed]_vars

\* C33 witness: speech has won a race that started with the key 'm' of the race before
\* still in keyPressed, and the next race is pending with keyPressed null
C33_Witness ==
  /\ state = "ListeningOrWaitingForKey"
  /\ RacePending
  /\ nKeys = 1
  /\ keyPressed = Null
  /\ \E i \in 1..Len(effects) : effects[i].src = "console" /\ effects[i].out = "history"
  /\ Len(userSpeechBuffer) >= 1

\* C34: a step that takes key waiters away is a keypress; either it ends the process with the
\* context as it was and no key counted, or it takes all the waiters away; in that case, when
\* the race is pending it settles that one race, once, on the key (one more key has won,
\* keyPressed is its token, the machine is in CheckIfKeypressOrContinueListening with no
\* actor), however many waiters of earlier races were registered with it, and when only
\* such waiters are registered it changes nothing else; from the key that won to the end
\* of Dispatch no key waiter is registered.
C34_OneKeypressOneDispatch ==
  /\ [](state \in CommitDispatch => keyHandlers = 0)
  /\ [][(keyHandlers' < keyHandlers /\ state' \in EndedByKey) =>
          UNCHANGED <<context, nKeys, nSpeech, pendingListens>>]_vars
  /\ [][(keyHandlers' < keyHandlers /\ state' \notin EndedByKey) =>
          /\ keyHandlers' = 0
          /\ nKeys' \in {nKeys, nKeys + 1}
          /\ RacePending =>
               /\ nKeys' = nKeys + 1
               /\ state' = "CheckIfKeypressOrContinueListening"
               /\ child' = NoActor
               /\ keyPressed' # Null
               /\ UNCHANGED <<messages, userSpeechBuffer, pendingListens>>
          /\ (~RacePending /\ child # waitForKey) => UNCHANGED <<state, context, child>>]_vars
  /\ [][keyHandlers' > keyHandlers => keyHandlers' = keyHandlers + 1]_vars

\* C34 witness: a key has won the third race, on which the waiters of the two races that
\* speech won resolved too, and no waiter is left
C34_Witness ==
  /\ state = "CheckIfKeypressOrContinueListening"
  /\ keyPressed # Null
  /\ Len(userSpeechBuffer) = 2
  /\ keyHandlers = 0
  /\ effects = <<>>

\* C35: a key pressed while no race and no confirmation wait is pending is not kept for
\* later: whenever a step sets keyPressed to a key, thereby causing a Dispatch, that key was
\* pressed while the race or the wait the step settles was pending, none being held back
\* from an earlier state.
C35_KeysNotQueued ==
  [][(keyPressed' # keyPressed /\ keyPressed' # Null) => stdinBuffer = <<>>]_vars

\* the Turns appended since the last key arrived
SinceKey == SubSeq(messages, Len(atKey.messages) + 1, Len(messages))

\* C36: until a key has won a race messages is the two Turns of the start; from then on
\* messages is what the last key found followed by at most two Turns: at most one user
\* Turn, and only when the key found the buffer non-empty, holding its fragments joined,
\* then at most one assistant Turn; every Turn after the first two has role user or
\* assistant.  This still holds when ListeningOrWaitingForKey is entered again.
C36_TurnGrowthPerKey ==
  /\ \A i \in 3..Len(messages) : messages[i].role \in {"user", "assistant"}
  /\ nKeys = 0 => Len(messages) = 2
  /\ nKeys >= 1 =>
       /\ Len(messages) >= Len(atKey.messages)
       /\ SubSeq(messages, 1, Len(atKey.messages)) = atKey.messages
       /\ Len(SinceKey) <= 2
       /\ Len(SinceKey) = 2 => SinceKey[1].role = "user" /\ SinceKey[2].role = "assistant"
       /\ \A i \in 1..Len(SinceKey) :
            SinceKey[i].role = "user" =>
              /\ i = 1
              /\ atKey.userSpeechBuffer # <<>>
              /\ IsSpaceJoined(SinceKey[i].content, atKey.userSpeechBuffer)

\* C36 witness: the race after a key is pending and the key has added a user Turn and an
\* assistant Turn
C36_Witness ==
  /\ state = "ListeningOrWaitingForKey"
  /\ RacePending
  /\ nKeys >= 1
  /\ Len(SinceKey) = 2

\* C37: from End on the machine stays in the closing states until the process ends; there
\* no race is pending, no language-model call, no audio delivery and no race has been
\* started since the key, and a step starts no actor other than the key waiter of the
\* confirmation, sends no listen request, leaves userSpeechBuffer as it is and appends
\* nothing to messages but the closing assistant Turn after the closing delivery, whatever
\* key is pressed at the confirmation.
C37_NothingAfterQuit ==
  /\ [](state \in QuitFlow =>
          /\ ~RacePending
          /\ child.src \in {"none", "fhSpeak", "waitForKey"}
          /\ child.src = "fhSpeak" => state = "End" /\ child = fhSpeak(FarewellText, FALSE)
          /\ Calls({"chatCompletion", "fhSpeakAudio", "listenOrKeypress"}) = 0)
  /\ [][(state \in QuitFlow) =>
          /\ state' \in QuitFlow \cup EndedByKey
          /\ (child' # child => child' \in {NoActor, waitForKey})
          /\ pendingListens' <= pendingListens
          /\ userSpeechBuffer' = userSpeechBuffer
          /\ (messages' # messages =>
                (state = "End"
                   /\ messages' = Append(messages, Message("assistant", FarewellText))))]_vars

\* C37 witness: the key of the language model was pressed at the confirmation, and no
\* language-model call was made
C37_Witness ==
  /\ state = "ProcessYN"
  /\ isDiscussKey(keyPressed)
  /\ child = NoActor
  /\ effects = <<>>

\* C38: in the sequential machine the step out of Listening enters WaitingForKeypress and
\* starts the key waiter; when the listen succeeded it appends exactly one user Turn whose
\* content is the utterance as heard, and when it failed it leaves messages as it is; the
\* step ProcessKeypress takes on a key that is neither '0', 'l' nor a stimulus key enters
\* WaitingForKeypress again with messages unchanged and no listen request sent; on '0'
\* ProcessKeypress enters End, the step out of End enters Done whether the closing
\* delivery succeeded (the closing Turn is appended) or failed, and End always leads to
\* Done.
C38_SequentialListenThenKey ==
  /\ [][(state = "Listening" /\ state' # state) =>
          /\ state' = "WaitingForKeypress"
          /\ child' = waitForKey
          /\ keyHandlers' = keyHandlers + 1
          /\ pendingListens' = pendingListens - 1
          /\ IF nSpeech' = nSpeech + 1
             THEN /\ heard' = Append(heard, Last(heard'))
                  /\ messages' = Append(messages, Message("user", Last(heard')))
                  /\ lastResult' = Last(heard')
             ELSE /\ nSpeech' = nSpeech
                  /\ messages' = messages]_vars
  /\ [][(state = "ProcessKeypress"
           /\ keyPressed \notin StimulusTokens \cup {<<"0">>, <<"l">>}) =>
          /\ state' = "WaitingForKeypress"
          /\ child' = waitForKey
          /\ pendingListens' = pendingListens
          /\ messages' = messages]_vars
  /\ [][(state = "ProcessKeypress" /\ keyPressed = <<"0">>) =>
          state' = "End" /\ child' = fhSpeak(FarewellText, FALSE)]_vars
  /\ [][state = "End" =>
          /\ state' = "Done"
          /\ \/ messages' = Append(messages, Message("assistant", FarewellText))
             \/ messages' = messages]_vars
  /\ (state = "End") ~> (state = "Done")

\* C38 witness: the sequential machine is in Done after '0', a no-match utterance having
\* been stored as heard and the closing delivery having failed
C38_Witness ==
  /\ variant = "sequential"
  /\ state = "Done"
  /\ keyPressed = <<"0">>
  /\ Last(messages) = Message("user", UttNoMatchUpper)

====
